---- MODULE Spec2Model ----
(***************************************************************************)
(* Model of the resume rewriter: the renderer text_to_docx                 *)
(* (src/src/function_app/docx_generator.py) first, then, each with its     *)
(* own specification further down, update_tracking_file, process_resume,   *)
(* generate_unique_identifier, get_gemini_recommendations and              *)
(* rewrite_resume.                                                         *)
(*                                                                         *)
(* A text is a sequence of tokens.  A token is one literal bracketed tag   *)
(* ("[NAME]"), one whitespace character (" ", "\t", "\n"), one punctuation *)
(* character (".", "!", "?", ":", "|") or one word without whitespace or   *)
(* punctuation.  Python's str.strip, str.split, str.endswith, str.upper,   *)
(* the substring test and the marker regular expressions are computed on   *)
(* these sequences.                                                        *)
(*                                                                         *)
(* The document is the sequence of its paragraphs; a paragraph is a record *)
(* of its runs and its paragraph format.  The field src of a paragraph and *)
(* of a run is a ghost: the number of the input line that added it.        *)
(***************************************************************************)
EXTENDS Integers, Sequences, FiniteSets, TLC

\* The state of one run of text_to_docx.
VARIABLES resume_text, lines, i, doc, last_job_para, last_edu_para, pc

\* The tracking blob in storage and the calls of update_tracking_file.
VARIABLES tracking_blob, update_calls

\* The call of ResumeAgent.process_resume: its arguments, its position, its
\* locals, what it returned and (a ghost) the collaborators it has called.
VARIABLES agent

\* The clock, the file names generate_unique_identifier has returned and the
\* blobs of the tailored-resume container.
VARIABLES clock, issued, tailored_container

\* The call of get_gemini_recommendations and the call of rewrite_resume.
VARIABLES recommend, rewrite

\* The request being served by the /api/rewrite-resume route (src/app.py).
VARIABLES route

docx_vars == <<resume_text, lines, i, doc, last_job_para, last_edu_para, pc>>

tracking_vars == <<tracking_blob, update_calls>>

identifier_vars == <<clock, issued, tailored_container>>

vars == <<docx_vars, tracking_vars, agent, identifier_vars, recommend, rewrite, route>>

\* What a step of text_to_docx leaves alone.
outside_docx == <<tracking_vars, agent, identifier_vars, recommend, rewrite, route>>

\* What a step of update_tracking_file leaves alone.
outside_tracking == <<docx_vars, agent, identifier_vars, recommend, rewrite, route>>

\* What a step of process_resume leaves alone.
outside_agent == <<docx_vars, tracking_vars, identifier_vars, recommend, rewrite, route>>

\* What naming and uploading a tailored resume leaves alone.
outside_identifier == <<docx_vars, tracking_vars, agent, recommend, rewrite, route>>

\* What a step of get_gemini_recommendations leaves alone.
outside_recommend == <<docx_vars, tracking_vars, agent, identifier_vars, rewrite, route>>

\* What a step of rewrite_resume leaves alone.
outside_rewrite == <<docx_vars, tracking_vars, agent, identifier_vars, recommend, route>>

\* What a step of the /api/rewrite-resume route leaves alone; process_resume
\* runs inside it.
outside_route == <<docx_vars, tracking_vars, identifier_vars, recommend, rewrite>>

(***************************************************************************)
(* Bounds of the checked inputs.                                           *)
(***************************************************************************)
MaxLines == 2

MaxJobLines == 4

MaxTokens == 5

MaxColonTokens == 3

(***************************************************************************)
(* Text primitives.                                                        *)
(***************************************************************************)
IsSpace(tok) == tok \in {" ", "\t", "\n"}

RECURSIVE LStrip(_)
LStrip(s) ==
    IF s = <<>> THEN <<>>
    ELSE IF IsSpace(Head(s)) THEN LStrip(Tail(s))
    ELSE s

RECURSIVE RStrip(_)
RStrip(s) ==
    IF s = <<>> THEN <<>>
    ELSE IF IsSpace(s[Len(s)]) THEN RStrip(SubSeq(s, 1, Len(s) - 1))
    ELSE s

\* str.strip()
Strip(s) == RStrip(LStrip(s))

StartsWith(s, pre) ==
    /\ Len(pre) <= Len(s)
    /\ SubSeq(s, 1, Len(pre)) = pre

\* str.endswith(suf)
EndsWith(s, suf) ==
    /\ Len(suf) <= Len(s)
    /\ SubSeq(s, Len(s) - Len(suf) + 1, Len(s)) = suf

\* Mutant of Contains: the test is for a prefix.
ContainsAtStart(s, sub) == Len(sub) <= Len(s) /\ SubSeq(s, 1, Len(sub)) = sub

\* sub in s
Contains(s, sub) ==
    \E k \in 0..(Len(s) - Len(sub)) : SubSeq(s, k + 1, k + Len(sub)) = sub

\* s.split(sep) for a non-empty sep: cur is the part being read.
RECURSIVE SplitFrom(_, _, _)
SplitFrom(s, sep, cur) ==
    IF s = <<>> THEN <<cur>>
    ELSE IF StartsWith(s, sep)
         THEN <<cur>> \o SplitFrom(SubSeq(s, Len(sep) + 1, Len(s)), sep, <<>>)
         ELSE SplitFrom(Tail(s), sep, Append(cur, Head(s)))

SplitOn(s, sep) == SplitFrom(s, sep, <<>>)

\* The case mapping of the tokens that have lower-case letters.
UpperMap ==
    [t \in {"[name]", "[skills]", "[bullet]", "[dates]", "[Job_Title]",
            "Experience", "Engineer", "Acme", "text"} |->
        CASE t = "[name]" -> "[NAME]"
          [] t = "[skills]" -> "[SKILLS]"
          [] t = "[bullet]" -> "[BULLET]"
          [] t = "[dates]" -> "[DATES]"
          [] t = "[Job_Title]" -> "[JOB_TITLE]"
          [] t = "Experience" -> "EXPERIENCE"
          [] t = "Engineer" -> "ENGINEER"
          [] t = "Acme" -> "ACME"
          [] t = "text" -> "TEXT"]

UpperTok(t) == IF t \in DOMAIN UpperMap THEN UpperMap[t] ELSE t

\* str.upper()
Upper(s) == [k \in 1..Len(s) |-> UpperTok(s[k])]

(***************************************************************************)
(* The marker table.                                                       *)
(***************************************************************************)
\* The keys of the patterns dict, in insertion order.
patterns ==
    <<"NAME", "CONTACT", "SUMMARY", "SECTION_HEADER", "JOB_TITLE", "COMPANY",
      "DATES", "LOCATION", "BULLET", "SKILL_CATEGORY", "SKILLS",
      "EDUCATION_DEGREE", "EDUCATION_SCHOOL", "EDUCATION_DATES",
      "EDUCATION_DETAILS">>

\* The literal tag each pattern looks for.
TagOf(marker_type) ==
    CASE marker_type = "NAME" -> "[NAME]"
      [] marker_type = "CONTACT" -> "[CONTACT]"
      [] marker_type = "SUMMARY" -> "[SUMMARY]"
      [] marker_type = "SECTION_HEADER" -> "[SECTION_HEADER]"
      [] marker_type = "JOB_TITLE" -> "[JOB_TITLE]"
      [] marker_type = "COMPANY" -> "[COMPANY]"
      [] marker_type = "DATES" -> "[DATES]"
      [] marker_type = "LOCATION" -> "[LOCATION]"
      [] marker_type = "BULLET" -> "[BULLET]"
      [] marker_type = "SKILL_CATEGORY" -> "[SKILL_CATEGORY]"
      [] marker_type = "SKILLS" -> "[SKILLS]"
      [] marker_type = "EDUCATION_DEGREE" -> "[EDUCATION_DEGREE]"
      [] marker_type = "EDUCATION_SCHOOL" -> "[EDUCATION_SCHOOL]"
      [] marker_type = "EDUCATION_DATES" -> "[EDUCATION_DATES]"
      [] marker_type = "EDUCATION_DETAILS" -> "[EDUCATION_DETAILS]"

\* pattern.match(line) of r"^\s*\[TAG\]\s*(.*)" with re.IGNORECASE.
PatternMatches(marker_type, line) ==
    LET rest == LStrip(line)
    IN  /\ rest # <<>>
        /\ UpperTok(Head(rest)) = TagOf(marker_type)

\* match.group(1): what follows the tag and the whitespace after it.
Group1(line) == LStrip(Tail(LStrip(line)))

\* The first pattern of the table that matches the line; 0 when none does.
FirstMatch(line) ==
    LET hits == {k \in 1..Len(patterns) : PatternMatches(patterns[k], line)}
    IN  IF hits = {} THEN 0
        ELSE CHOOSE k \in hits : \A m \in hits : k <= m

(***************************************************************************)
(* The document.                                                           *)
(* Lengths are in points, indents and tab positions in hundredths of an    *)
(* inch; -1 is python-docx's None (inherited).  A run whose bold or italic *)
(* is never assigned inherits it from a style that is neither: FALSE.      *)
(***************************************************************************)
Run(text, bold, italic, size, n) ==
    [text |-> text, bold |-> bold, italic |-> italic, size |-> size, src |-> n]

\* Paragraph.text: the texts of the runs, a tab read back as "\t".
RECURSIVE RunsText(_)
RunsText(runs) ==
    IF runs = <<>> THEN <<>> ELSE Head(runs).text \o RunsText(Tail(runs))

ParaText(para) == RunsText(para.runs)

\* para.add_run(text); the caller sets the returned run's attributes.
add_run(para, text, bold, italic, size, n) ==
    [para EXCEPT !.runs = Append(@, Run(text, bold, italic, size, n))]

add_styled_paragraph(d, text, size, bold, italic, align, space_after, space_before, n) ==
    Append(d, [runs |-> <<Run(text, bold, italic, size, n)>>,
               style |-> "Normal",
               alignment |-> align,
               space_after |-> space_after,
               space_before |-> space_before,
               left_indent |-> -1,
               tab_stops |-> {},
               border |-> FALSE,
               src |-> n])

\* Mutant of BulletRuns: first_sentence is never reset, every run is bold.
RECURSIVE BulletRunsAllBold(_, _, _, _, _)
BulletRunsAllBold(sentences, k, first_sentence, level, n) ==
    IF k > Len(sentences) THEN <<>>
    ELSE LET sentence == sentences[k]
         IN  IF Strip(sentence) = <<>>
             THEN BulletRunsAllBold(sentences, k + 1, first_sentence, level, n)
             ELSE LET withDot ==
                          IF \/ k < Len(sentences)
                             \/ sentence[Len(sentence)] \notin {".", "!", "?"}
                          THEN Append(sentence, ".")
                          ELSE sentence
                      bold == first_sentence /\ level = 0
                  IN  <<Run(Append(withDot, " "), bold, FALSE, 10, n)>>
                      \o BulletRunsAllBold(sentences, k + 1, first_sentence, level, n)

\* The loop of add_bullet_point over enumerate(sentences), from index k on.
RECURSIVE BulletRuns(_, _, _, _, _)
BulletRuns(sentences, k, first_sentence, level, n) ==
    IF k > Len(sentences) THEN <<>>
    ELSE LET sentence == sentences[k]
         IN  IF Strip(sentence) = <<>>
             THEN BulletRuns(sentences, k + 1, first_sentence, level, n)
             ELSE LET withDot ==
                          IF \/ k < Len(sentences)
                             \/ sentence[Len(sentence)] \notin {".", "!", "?"}
                          THEN Append(sentence, ".")
                          ELSE sentence
                      bold == first_sentence /\ level = 0
                  IN  <<Run(Append(withDot, " "), bold, FALSE, 10, n)>>
                      \o BulletRuns(sentences, k + 1, FALSE, level, n)

add_bullet_point(d, text, level, space_after, n) ==
    Append(d, [runs |-> BulletRuns(SplitOn(text, <<".", " ">>), 1, TRUE,
                                    level, n),
               style |-> "List Bullet",
               alignment |-> "NONE",
               space_after |-> space_after,
               space_before |-> 0,
               left_indent |-> 25 * (level + 1),
               tab_stops |-> {},
               border |-> FALSE,
               src |-> n])

\* add_horizontal_line on the last paragraph of d.
add_horizontal_line(d) == [d EXCEPT ![Len(d)].border = TRUE]

(***************************************************************************)
(* The branches of the marker dispatch of text_to_docx.  s is the state of *)
(* the pass: the document, the two open blocks (the index of a paragraph,  *)
(* 0 for None) and whether the line raised; text is the non-empty payload; *)
(* n is the number of the line.                                            *)
(***************************************************************************)
NameLine(s, text, n) ==
    [s EXCEPT !.doc = add_styled_paragraph(@, text, 16, TRUE, FALSE, "CENTER",
                                           2, 0, n)]

ContactLine(s, text, n) ==
    [s EXCEPT !.doc = add_horizontal_line(
        add_styled_paragraph(@, text, 9, FALSE, FALSE, "CENTER", 6, 0, n))]

\* The loop over enumerate(summary_lines), from index k on (0-based as in
\* the source).
RECURSIVE SummaryParas(_, _, _, _)
SummaryParas(d, summary_lines, k, n) ==
    IF k >= Len(summary_lines) THEN d
    ELSE LET summary_line == summary_lines[k + 1]
             bold == k = 0 /\ Contains(summary_line, <<"US", " ", "Citizen">>)
         IN  SummaryParas(
                 add_styled_paragraph(d, summary_line, -1, bold, FALSE, "NONE",
                                      2, 0, n),
                 summary_lines, k + 1, n)

SummaryLine(s, text, n) ==
    [s EXCEPT !.doc = SummaryParas(@, SplitOn(text, <<"\n">>), 0, n)]

SectionHeaderLine(s, text, n) ==
    [s EXCEPT !.doc = add_horizontal_line(
        add_styled_paragraph(@, Upper(text), 11, TRUE, FALSE, "NONE", 3, 6, n))]

\* Mutant of JobTitleLine: a new job title ends the open education block.
JobTitleLineClosesEducation(s, text, n) ==
    [s EXCEPT !.doc = add_styled_paragraph(@, text, -1, TRUE, FALSE, "NONE", 0, 0, n),
              !.last_job_para = Len(s.doc) + 1,
              !.last_edu_para = 0]

JobTitleLine(s, text, n) ==
    [s EXCEPT !.doc = add_styled_paragraph(@, text, -1, TRUE, FALSE, "NONE",
                                           0, 0, n),
              !.last_job_para = Len(s.doc) + 1]

\* Mutant of CompanyLine: appending the company closes the open job block.
CompanyLineClosesBlock(s, text, n) ==
    IF /\ s.last_job_para # 0
       /\ Strip(ParaText(s.doc[s.last_job_para])) # <<>>
    THEN [s EXCEPT !.doc[s.last_job_para] =
                       add_run(@, <<" ", "|", " ">> \o text, FALSE, TRUE, -1, n),
                   !.last_job_para = 0]
    ELSE [s EXCEPT !.doc = add_styled_paragraph(@, text, -1, FALSE, TRUE, "NONE", 0, 0, n),
                   !.last_job_para = Len(s.doc) + 1]

CompanyLine(s, text, n) ==
    IF /\ s.last_job_para # 0
       /\ Strip(ParaText(s.doc[s.last_job_para])) # <<>>
    THEN [s EXCEPT !.doc[s.last_job_para] =
                       add_run(@, <<" ", "|", " ">> \o text, FALSE, TRUE, -1, n)]
    ELSE [s EXCEPT !.doc = add_styled_paragraph(@, text, -1, FALSE, TRUE,
                                                "NONE", 0, 0, n),
                   !.last_job_para = Len(s.doc) + 1]

\* Mutant of DatesLine: the dates never join the open job block.
DatesLineStandalone(s, text, n) ==
    [s EXCEPT !.doc = add_styled_paragraph(@, text, -1, FALSE, FALSE, "RIGHT", 2, 0, n)]

DatesLine(s, text, n) ==
    IF s.last_job_para # 0
    THEN [s EXCEPT !.doc[s.last_job_para] =
                       [add_run(@, <<"\t">> \o text, FALSE, FALSE, -1, n)
                           EXCEPT !.tab_stops = @ \cup {<<650, "RIGHT">>},
                                  !.space_after = 2],
                   !.last_job_para = 0]
    ELSE [s EXCEPT !.doc = add_styled_paragraph(@, text, -1, FALSE, FALSE,
                                                "RIGHT", 2, 0, n)]

\* Mutant of LocationLine: the location ends the open job block.
LocationLineEndsJob(s, text, n) ==
    [s EXCEPT !.doc = add_styled_paragraph(@, text, 9, FALSE, TRUE, "NONE", 2, 0, n),
              !.last_job_para = 0]

LocationLine(s, text, n) ==
    [s EXCEPT !.doc = add_styled_paragraph(@, text, 9, FALSE, TRUE, "NONE",
                                           2, 0, n)]

BulletLine(s, text, n) ==
    [s EXCEPT !.doc = add_bullet_point(@, text, 0, 2, n)]

SkillCategoryLine(s, text, n) ==
    [s EXCEPT !.doc = add_styled_paragraph(@, text \o <<":", " ">>, -1, TRUE,
                                           FALSE, "NONE", 0, 3, n)]

\* Mutant of SkillsLine: the skills are written into the category's own run.
SkillsLineRewritesRun(s, text, n) ==
    IF s.doc = <<>>
    THEN [s EXCEPT !.raised = TRUE]
    ELSE IF EndsWith(ParaText(s.doc[Len(s.doc)]), <<":", " ">>)
         THEN [s EXCEPT !.doc[Len(s.doc)].runs[Len(s.doc[Len(s.doc)].runs)].text = @ \o text,
                        !.doc[Len(s.doc)].space_after = 3]
         ELSE [s EXCEPT !.doc = add_styled_paragraph(@, text, -1, FALSE, FALSE, "NONE", 3, 0, n)]

\* doc.paragraphs[-1] of a document without paragraphs raises IndexError.
SkillsLine(s, text, n) ==
    IF s.doc = <<>>
    THEN [s EXCEPT !.raised = TRUE]
    ELSE IF EndsWith(ParaText(s.doc[Len(s.doc)]), <<":", " ">>)
         THEN [s EXCEPT !.doc[Len(s.doc)] =
                            [add_run(@, text, FALSE, FALSE, -1, n)
                                EXCEPT !.space_after = 3]]
         ELSE [s EXCEPT !.doc = add_styled_paragraph(@, text, -1, FALSE, FALSE,
                                                     "NONE", 3, 0, n)]

EducationDegreeLine(s, text, n) ==
    [s EXCEPT !.doc = add_styled_paragraph(@, text, -1, TRUE, FALSE, "NONE",
                                           0, 0, n),
              !.last_edu_para = Len(s.doc) + 1]

EducationSchoolLine(s, text, n) ==
    IF /\ s.last_edu_para # 0
       /\ Strip(ParaText(s.doc[s.last_edu_para])) # <<>>
    THEN [s EXCEPT !.doc[s.last_edu_para] =
                       add_run(@, <<",", " ">> \o text, FALSE, TRUE, -1, n)]
    ELSE [s EXCEPT !.doc = add_styled_paragraph(@, text, -1, FALSE, TRUE,
                                                "NONE", 0, 0, n),
                   !.last_edu_para = Len(s.doc) + 1]

\* Mutant of EducationDatesLine: the dates leave the education block open.
EducationDatesKeepsBlock(s, text, n) ==
    IF /\ s.last_edu_para # 0
       /\ Strip(ParaText(s.doc[s.last_edu_para])) # <<>>
    THEN [s EXCEPT !.doc[s.last_edu_para] =
                       [add_run(@, <<"\t">> \o text, FALSE, FALSE, -1, n)
                           EXCEPT !.tab_stops = @ \cup {<<650, "RIGHT">>},
                                  !.space_after = 2]]
    ELSE [s EXCEPT !.doc = add_styled_paragraph(@, text, -1, FALSE, FALSE, "RIGHT", 2, 0, n)]

EducationDatesLine(s, text, n) ==
    IF /\ s.last_edu_para # 0
       /\ Strip(ParaText(s.doc[s.last_edu_para])) # <<>>
    THEN [s EXCEPT !.doc[s.last_edu_para] =
                       [add_run(@, <<"\t">> \o text, FALSE, FALSE, -1, n)
                           EXCEPT !.tab_stops = @ \cup {<<650, "RIGHT">>},
                                  !.space_after = 2],
                   !.last_edu_para = 0]
    ELSE [s EXCEPT !.doc = add_styled_paragraph(@, text, -1, FALSE, FALSE,
                                                "RIGHT", 2, 0, n)]

EducationDetailsLine(s, text, n) ==
    [s EXCEPT !.doc = add_styled_paragraph(@, text, 9, FALSE, TRUE, "NONE",
                                           3, 0, n)]

\* Mutant of PlainLine: the plain line leaves the open job block open.
PlainLineKeepsJob(s, line, n) ==
    [s EXCEPT !.doc = add_styled_paragraph(@, line, -1, FALSE, FALSE, "NONE", 3, 0, n),
              !.last_edu_para = 0]

\* A line no pattern matches.
PlainLine(s, line, n) ==
    [s EXCEPT !.doc = add_styled_paragraph(@, line, -1, FALSE, FALSE, "NONE",
                                           3, 0, n),
              !.last_job_para = 0,
              !.last_edu_para = 0]

\* The if/elif chain on marker_type.
MarkerLine(marker_type, s, text, n) ==
    CASE marker_type = "NAME" -> NameLine(s, text, n)
      [] marker_type = "CONTACT" -> ContactLine(s, text, n)
      [] marker_type = "SUMMARY" -> SummaryLine(s, text, n)
      [] marker_type = "SECTION_HEADER" -> SectionHeaderLine(s, text, n)
      [] marker_type = "JOB_TITLE" -> JobTitleLine(s, text, n)
      [] marker_type = "COMPANY" -> CompanyLine(s, text, n)
      [] marker_type = "DATES" -> DatesLine(s, text, n)
      [] marker_type = "LOCATION" -> LocationLine(s, text, n)
      [] marker_type = "BULLET" -> BulletLine(s, text, n)
      [] marker_type = "SKILL_CATEGORY" -> SkillCategoryLine(s, text, n)
      [] marker_type = "SKILLS" -> SkillsLine(s, text, n)
      [] marker_type = "EDUCATION_DEGREE" -> EducationDegreeLine(s, text, n)
      [] marker_type = "EDUCATION_SCHOOL" -> EducationSchoolLine(s, text, n)
      [] marker_type = "EDUCATION_DATES" -> EducationDatesLine(s, text, n)
      [] marker_type = "EDUCATION_DETAILS" -> EducationDetailsLine(s, text, n)

\* Mutant of EmptyMarker: the marker without payload is a line of body text
\* that ends the pending pairings.
EmptyMarkerEndsPairing(s) == [s EXCEPT !.last_job_para = 0, !.last_edu_para = 0]

\* A marker whose payload is empty is matched and does nothing.
EmptyMarker(s) == s

\* Mutant of ProcessLine: a marker without payload is formatted as any
\* other.
ProcessLineEmptyPayload(s, line, n) ==
    LET k == FirstMatch(line)
    IN  IF k = 0 THEN PlainLine(s, line, n)
        ELSE MarkerLine(patterns[k], s, Strip(Group1(line)), n)

\* The body of the loop for one stripped, non-empty line.
ProcessLine(s, line, n) ==
    LET k == FirstMatch(line)
    IN  IF k = 0 THEN PlainLine(s, line, n)
        ELSE LET text == Strip(Group1(line))
             IN  IF text = <<>> THEN EmptyMarker(s)
                 ELSE MarkerLine(patterns[k], s, text, n)

(***************************************************************************)
(* text_to_docx as a state machine: Start splits the text into lines       *)
(* (line 126), LoopStep is one iteration of the loop over the lines (lines *)
(* 160-252; on an exception the except clause re-raises, lines 262-266),   *)
(* Save returns the document (lines 254-260).  The pass over the lines     *)
(* that counts the bullets (lines 150-158) only logs.                      *)
(***************************************************************************)
Start ==
    /\ pc = "start"
    /\ lines' = SplitOn(Strip(resume_text), <<"\n">>)
    /\ pc' = "loop"
    /\ UNCHANGED <<resume_text, i, doc, last_job_para, last_edu_para>>
    /\ UNCHANGED outside_docx

\* The state of the pass as the record the branches work on.
PassState ==
    [doc |-> doc, last_job_para |-> last_job_para,
     last_edu_para |-> last_edu_para, raised |-> FALSE]

\* Mutant of LoopBody: a blank line is a paragraph break that ends the
\* pending pairings.
LoopBodyBlankResets ==
    LET line == Strip(lines[i + 1])
    IN  IF line = <<>> THEN [PassState EXCEPT !.last_job_para = 0, !.last_edu_para = 0]
        ELSE ProcessLine(PassState, line, i + 1)

\* Mutant of LoopBody: the line is processed as it is, without trimming.
LoopBodyUntrimmed ==
    LET line == lines[i + 1]
    IN  IF Strip(line) = <<>> THEN PassState ELSE ProcessLine(PassState, line, i + 1)

\* Mutant of LoopBody: blank lines are not skipped.
LoopBodyNoSkip == ProcessLine(PassState, Strip(lines[i + 1]), i + 1)

\* The outcome of the iteration on lines[i + 1].
LoopBody ==
    LET line == Strip(lines[i + 1])
    IN  IF line = <<>> THEN PassState ELSE ProcessLine(PassState, line, i + 1)

\* Mutant of LoopStep: the iteration may also pass over the line without
\* processing it.
LoopStepMaySkip ==
    /\ pc = "loop"
    /\ i < Len(lines)
    /\ \/ /\ doc' = LoopBody.doc
          /\ last_job_para' = LoopBody.last_job_para
          /\ last_edu_para' = LoopBody.last_edu_para
          /\ pc' = IF LoopBody.raised THEN "raised" ELSE "loop"
          /\ i' = IF LoopBody.raised THEN i ELSE i + 1
       \/ /\ i' = i + 1
          /\ UNCHANGED <<doc, last_job_para, last_edu_para, pc>>
    /\ UNCHANGED <<resume_text, lines>>
    /\ UNCHANGED outside_docx

LoopStep ==
    /\ pc = "loop"
    /\ i < Len(lines)
    /\ doc' = LoopBody.doc
    /\ last_job_para' = LoopBody.last_job_para
    /\ last_edu_para' = LoopBody.last_edu_para
    /\ pc' = IF LoopBody.raised THEN "raised" ELSE "loop"
    /\ i' = IF LoopBody.raised THEN i ELSE i + 1
    /\ UNCHANGED <<resume_text, lines>>
    /\ UNCHANGED outside_docx

\* Mutant of Save: the except clause returns the document built so far.
SaveOnError ==
    /\ \/ pc = "loop" /\ i = Len(lines)
       \/ pc = "raised"
    /\ pc' = "done"
    /\ UNCHANGED <<resume_text, lines, i, doc, last_job_para, last_edu_para>>
    /\ UNCHANGED outside_docx

Save ==
    /\ pc = "loop"
    /\ i = Len(lines)
    /\ pc' = "done"
    /\ UNCHANGED <<resume_text, lines, i, doc, last_job_para, last_edu_para>>
    /\ UNCHANGED outside_docx

Next == Start \/ LoopStep \/ Save

(***************************************************************************)
(* The inputs.                                                             *)
(***************************************************************************)
SeqsUpTo(S, n) == UNION {[1..k -> S] : k \in 0..n}

\* "\n".join(ls)
RECURSIVE JoinLines(_)
JoinLines(ls) ==
    IF ls = <<>> THEN <<>>
    ELSE IF Len(ls) = 1 THEN ls[1]
    ELSE ls[1] \o <<"\n">> \o JoinLines(Tail(ls))

\* One payload per marker, in the order of the marker table.
Payloads ==
    <<  <<"Ann">>, <<"ann@x">>, <<"Builder">>, <<"Experience">>,
        <<"Engineer">>, <<"Acme">>, <<"2020-2022">>, <<"Remote">>,
        <<"Did", " ", "X", ".", " ", "Led", " ", "Y">>,
        <<"Languages">>, <<"Go,", " ", "Rust">>,
        <<"BSc">>, <<"MIT">>, <<"2019">>, <<"Honors">> >>

KindIndex(marker_type) == CHOOSE k \in 1..Len(patterns) : patterns[k] = marker_type

\* The line "[MARKER] payload" of a marker.
L(marker_type) == <<TagOf(marker_type), " ">> \o Payloads[KindIndex(marker_type)]

MarkerLines == {L(patterns[k]) : k \in 1..Len(patterns)}

EmptyMarkerLines == {<<TagOf(patterns[k])>> : k \in 1..Len(patterns)}

PlainLine1 == <<"plain", " ", "text">>

BlankLine1 == <<" ">>

KindLines == MarkerLines \cup {PlainLine1, BlankLine1}

\* Every kind of line, in every order, up to MaxLines lines.
KindTexts == {JoinLines(ls) : ls \in SeqsUpTo(KindLines, MaxLines)}

\* The lines that open and close the two blocks and the plain line, up to
\* MaxJobLines lines.
PairLines ==
    {L("JOB_TITLE"), L("COMPANY"), L("DATES"), L("EDUCATION_DEGREE"),
     L("EDUCATION_DATES"), PlainLine1}

PairTexts == {JoinLines(ls) : ls \in SeqsUpTo(PairLines, MaxJobLines)}

\* Any line, with or without payload, between lines that open a block or a
\* skill category and a line that would use it.
Openers ==
    {<<>>, <<L("JOB_TITLE")>>, <<L("COMPANY")>>, <<L("EDUCATION_DEGREE")>>,
     <<L("SKILL_CATEGORY")>>, <<L("JOB_TITLE"), L("EDUCATION_DEGREE")>>}

Closers ==
    {<<>>, <<L("COMPANY")>>, <<L("DATES")>>, <<L("EDUCATION_SCHOOL")>>,
     <<L("EDUCATION_DATES")>>, <<L("SKILLS")>>}

SandwichTexts ==
    {JoinLines(a \o <<x>> \o b) :
        a \in Openers, x \in KindLines \cup EmptyMarkerLines, b \in Closers}

\* The examples of the specification's testable properties, and the fifteen
\* markers without payload inside two open blocks.
ExampleTexts ==
    {JoinLines(<<L("JOB_TITLE"), L("LOCATION"), L("BULLET"), L("DATES")>>),
     JoinLines(<<L("SKILL_CATEGORY"), L("SKILLS"), L("SKILLS")>>),
     JoinLines(<<<<"[Job_Title]", "Engineer">>, <<"\t", "[dates]", " ", "2020">>>>),
     JoinLines(<<L("JOB_TITLE"), L("EDUCATION_DEGREE")>>
               \o [k \in 1..Len(patterns) |-> <<TagOf(patterns[k]), " ", "\t">>]
               \o <<L("DATES"), L("EDUCATION_DATES")>>)}

LineTexts == KindTexts \cup PairTexts \cup SandwichTexts \cup ExampleTexts

\* The tracking blob is missing and update_tracking_file was never called.
TrackingIdle ==
    /\ tracking_blob = [exists |-> FALSE, rows |-> <<>>]
    /\ update_calls = <<>>

\* process_resume is not running.
AgentIdle == agent = [pc |-> "idle"]

\* No tailored resume was named or uploaded yet.
IdentifierIdle ==
    /\ clock = 0
    /\ issued = <<>>
    /\ tailored_container = <<>>

\* get_gemini_recommendations is not running.
RecommendIdle == recommend = [pc |-> "idle"]

\* rewrite_resume is not running.
RewriteIdle == rewrite = [pc |-> "idle"]

\* No request is being served.
RouteIdle == route = [pc |-> "idle"]

\* Everything but text_to_docx is idle.
OutsideDocxIdle ==
    TrackingIdle /\ AgentIdle /\ IdentifierIdle /\ RecommendIdle /\ RewriteIdle /\ RouteIdle

InitWith(texts) ==
    /\ resume_text \in texts
    /\ lines = <<>>
    /\ i = 0
    /\ doc = <<>>
    /\ last_job_para = 0
    /\ last_edu_para = 0
    /\ pc = "start"
    /\ OutsideDocxIdle

\* text_to_docx is not running.
DocxIdle ==
    /\ resume_text = <<>>
    /\ lines = <<>>
    /\ i = 0
    /\ doc = <<>>
    /\ last_job_para = 0
    /\ last_edu_para = 0
    /\ pc = "start"

Init == InitWith(LineTexts)

Spec == Init /\ [][Next]_vars

\* Texts of single characters, up to MaxTokens tokens: a bullet payload of
\* sentence punctuation, spaces and a letter; a text of white space, line
\* breaks and a letter; a summary payload of the words of "US Citizen",
\* spaces and a letter.  The words share no letter with each other, so the
\* substring test on tokens is the substring test on characters.
BulletTexts == {<<"[BULLET]", " ">> \o b : b \in SeqsUpTo({"X", ".", " ", "!", "?"}, MaxTokens)}

BlankTexts == SeqsUpTo({" ", "\t", "\n", "x"}, MaxTokens)

SummaryTexts == {<<"[SUMMARY]", " ">> \o b : b \in SeqsUpTo({"US", " ", "Citizen", "x"}, MaxTokens)}

\* A line of every kind whose payload is made of a letter, ":", " " and
\* ".", up to MaxColonTokens tokens, alone or after a line that opens a
\* block or a skill category, and followed by a [SKILLS] line.
ColonPayloads == SeqsUpTo({"x", ":", " ", "."}, MaxColonTokens)

ColonLines ==
    {<<TagOf(patterns[k]), " ">> \o p : k \in 1..Len(patterns), p \in ColonPayloads}
    \cup ColonPayloads

ColonOpeners ==
    {<<>>, <<L("JOB_TITLE")>>, <<L("EDUCATION_DEGREE")>>, <<L("SKILL_CATEGORY")>>}

ColonTexts == {JoinLines(a \o <<x, L("SKILLS")>>) : a \in ColonOpeners, x \in ColonLines}

InitText == InitWith(BulletTexts \cup BlankTexts \cup SummaryTexts \cup ColonTexts)

SpecText == InitText /\ [][Next]_vars

(***************************************************************************)
(* Reading a state: the input lines by kind, and the paragraphs and runs   *)
(* by the line that added them.                                            *)
(***************************************************************************)
StrippedLine(k) == Strip(lines[k])

\* "BLANK", "PLAIN", "EMPTY" (a marker without payload) or the marker type.
KindOfLine(line) ==
    IF line = <<>> THEN "BLANK"
    ELSE IF FirstMatch(line) = 0 THEN "PLAIN"
    ELSE IF Strip(Group1(line)) = <<>> THEN "EMPTY"
    ELSE patterns[FirstMatch(line)]

LineKind(k) == KindOfLine(StrippedLine(k))

LinePayload(k) == Strip(Group1(StrippedLine(k)))

\* The line the next LoopStep works on.
AtLine == pc = "loop" /\ i < Len(lines)

CurKind == LineKind(i + 1)

CurPayload == LinePayload(i + 1)

RunTexts(para) == [r \in 1..Len(para.runs) |-> para.runs[r].text]

\* The paragraphs that hold a run added by line k.
ParasOfLine(k) ==
    {p \in 1..Len(doc) : \E r \in 1..Len(doc[p].runs) : doc[p].runs[r].src = k}

\* The paragraphs that hold a run added by one of the lines a..b.
ParasOfLines(a, b) == UNION {ParasOfLine(k) : k \in a..b}

(***************************************************************************)
(* C1: the consecutive lines [JOB_TITLE] T, [COMPANY] C, [DATES] D, all    *)
(* with payload, produce exactly one paragraph, whose runs are T, " | C"   *)
(* and a tab followed by D.                                                *)
(***************************************************************************)
\* C1: title, company and dates lines in sequence give one paragraph.
C1_TitleCompanyDatesOneParagraph ==
    \A k \in 1..(i - 2) :
        (/\ LineKind(k) = "JOB_TITLE"
         /\ LineKind(k + 1) = "COMPANY"
         /\ LineKind(k + 2) = "DATES")
        => \E p \in 1..Len(doc) :
              /\ ParasOfLines(k, k + 2) = {p}
              /\ doc[p].src = k
              /\ RunTexts(doc[p]) =
                    << LinePayload(k),
                       <<" ", "|", " ">> \o LinePayload(k + 1),
                       <<"\t">> \o LinePayload(k + 2) >>

C1_Witness ==
    /\ pc = "done"
    /\ Len(lines) = 3
    /\ LineKind(1) = "JOB_TITLE" /\ LineKind(2) = "COMPANY" /\ LineKind(3) = "DATES"
    /\ Len(doc) = 1
    /\ ParaText(doc[1]) = <<"Engineer", " ", "|", " ", "Acme", "\t", "2020-2022">>

(***************************************************************************)
(* C2: once a PLAIN line q has been processed, a later [DATES] line d is   *)
(* never appended to a paragraph emitted before q; with no job title or    *)
(* company line between q and d, it is a right-aligned paragraph of its    *)
(* own.                                                                    *)
(***************************************************************************)
\* C2: a PLAIN line ends the pairing of an earlier title with later dates.
C2_PlainLineResetsPairing ==
    \A q \in 1..i : \A d \in (q + 1)..i :
        (LineKind(q) = "PLAIN" /\ LineKind(d) = "DATES")
        => /\ \A p \in ParasOfLine(d) : doc[p].src > q
           /\ (\A m \in (q + 1)..(d - 1) : LineKind(m) \notin {"JOB_TITLE", "COMPANY"})
              => \E p \in 1..Len(doc) :
                    /\ ParasOfLine(d) = {p}
                    /\ doc[p].src = d
                    /\ doc[p].alignment = "RIGHT"
                    /\ RunTexts(doc[p]) = <<LinePayload(d)>>

C2_Witness ==
    /\ pc = "done"
    /\ Len(lines) = 3
    /\ LineKind(1) = "JOB_TITLE" /\ LineKind(2) = "PLAIN" /\ LineKind(3) = "DATES"
    /\ Len(doc) = 3
    /\ RunTexts(doc[1]) = <<LinePayload(1)>>
    /\ doc[3].alignment = "RIGHT"

(***************************************************************************)
(* C3: text_to_docx never raises, whatever the lines and their order.      *)
(***************************************************************************)
\* C3: no reachable state is the raised one.
C3_NeverRaises == pc # "raised"

(***************************************************************************)
(* C4: a [SKILLS] line with payload is appended as a run to the last       *)
(* paragraph of the document exactly when that paragraph's text ends with  *)
(* ": "; otherwise it starts a new paragraph.                              *)
(***************************************************************************)
SkillsAppended ==
    /\ pc' = "loop"
    /\ Len(doc') = Len(doc)
    /\ \A p \in 1..(Len(doc) - 1) : doc'[p] = doc[p]
    /\ RunTexts(doc'[Len(doc)]) = Append(RunTexts(doc[Len(doc)]), CurPayload)

SkillsNewParagraph ==
    /\ pc' = "loop"
    /\ Len(doc') = Len(doc) + 1
    /\ SubSeq(doc', 1, Len(doc)) = doc
    /\ RunTexts(doc'[Len(doc')]) = <<CurPayload>>

LastEndsWithColonSpace ==
    /\ doc # <<>>
    /\ LET t == ParaText(doc[Len(doc)])
       IN  Len(t) >= 2 /\ t[Len(t) - 1] = ":" /\ t[Len(t)] = " "

\* C4: the step on a [SKILLS] line appends to the last paragraph when its
\* text ends with ": " and starts a new paragraph otherwise.
C4_SkillsInlineIffColonSpace ==
    [][(AtLine /\ CurKind = "SKILLS")
        => IF LastEndsWithColonSpace THEN SkillsAppended ELSE SkillsNewParagraph]_vars

(***************************************************************************)
(* C5: a line that is a marker tag with an empty payload has no effect: no *)
(* paragraph is created or modified, and the job and education pairing     *)
(* state is unchanged.  The line is not treated as PLAIN.                  *)
(***************************************************************************)
\* C5: the step on a marker without payload changes nothing but the line
\* counter.
C5_EmptyMarkerNoEffect ==
    [][(AtLine /\ CurKind = "EMPTY")
        => /\ doc' = doc
           /\ last_job_para' = last_job_para
           /\ last_edu_para' = last_edu_para
           /\ pc' = "loop"
           /\ i' = i + 1]_vars

\* All fifteen tags without payload have been processed inside an open job
\* block and an open education block.
C5_Witness ==
    /\ {patterns[FirstMatch(StrippedLine(k))] : k \in {m \in 1..i : LineKind(m) = "EMPTY"}}
         = {patterns[k] : k \in 1..Len(patterns)}
    /\ last_job_para = 1
    /\ last_edu_para = 2
    /\ Len(doc) = 2

(***************************************************************************)
(* C6: an empty or whitespace-only text gives a document without           *)
(* paragraphs: the run does not raise and goes on until it returns.        *)
(***************************************************************************)
IsBlankText == \A k \in 1..Len(resume_text) : resume_text[k] \in {" ", "\t", "\n"}

\* C6: a blank text never raises, never adds a paragraph and runs to done.
C6_BlankTextEmptyDocument ==
    IsBlankText
    => /\ pc # "raised"
       /\ doc = <<>>
       /\ last_job_para = 0 /\ last_edu_para = 0
       /\ pc = "done" \/ ENABLED Next

C6_Witness ==
    /\ pc = "done"
    /\ IsBlankText
    /\ \E k \in 1..Len(resume_text) : resume_text[k] = "\n"
    /\ \E k \in 1..Len(resume_text) : resume_text[k] = " "
    /\ doc = <<>>

(***************************************************************************)
(* C7: add_bullet_point splits the payload on ". ", skips the parts that   *)
(* are empty after trimming, appends a period to every emitted part but a  *)
(* final part that ends in ".", "!" or "?", and emits the parts (each      *)
(* followed by one space) as the runs of one bulleted paragraph, of which  *)
(* exactly the first is bold.                                              *)
(***************************************************************************)
DotSpace == <<".", " ">>

RECURSIVE JoinParts(_, _)
JoinParts(parts, sep) ==
    IF Len(parts) = 1 THEN parts[1]
    ELSE parts[1] \o sep \o JoinParts(Tail(parts), sep)

\* parts is the split of text on ". ": joined by ". " they give the text,
\* and none of them holds a ". ".
IsSplitOnDotSpace(parts, text) ==
    /\ Len(parts) >= 1
    /\ JoinParts(parts, DotSpace) = text
    /\ \A k \in 1..Len(parts) : \A m \in 1..(Len(parts[k]) - 1) :
          ~(parts[k][m] = "." /\ parts[k][m + 1] = " ")

IsBlankPart(part) == \A m \in 1..Len(part) : part[m] \in {" ", "\t", "\n"}

\* The run a part gives: the part, a period unless it is the final part and
\* ends in sentence punctuation, and a space.
SentenceOf(parts, k) ==
    parts[k]
    \o (IF k = Len(parts) /\ parts[k][Len(parts[k])] \in {".", "!", "?"}
        THEN <<>> ELSE <<".">>)

BulletParagraphOf(para, payload) ==
    LET parts == SplitOn(payload, DotSpace)
        kept == {k \in 1..Len(parts) : ~IsBlankPart(parts[k])}
        \* the index of the part the r-th run comes from
        partOf(r) == CHOOSE k \in kept : Cardinality({m \in kept : m <= k}) = r
    IN  /\ IsSplitOnDotSpace(parts, payload)
        /\ para.style = "List Bullet"
        /\ Len(para.runs) = Cardinality(kept)
        /\ \A r \in 1..Len(para.runs) :
              /\ para.runs[r].text = SentenceOf(parts, partOf(r)) \o <<" ">>
              /\ para.runs[r].bold = (r = 1)

\* C7: every [BULLET] line gives one bulleted paragraph of its sentences.
C7_BulletSentences ==
    \A k \in 1..i :
        LineKind(k) = "BULLET"
        => \E p \in 1..Len(doc) :
              /\ {q \in 1..Len(doc) : doc[q].src = k} = {p}
              /\ ParasOfLine(k) = {p}
              /\ BulletParagraphOf(doc[p], LinePayload(k))

\* "X. X" gives the bold run "X. " and the run "X. " with an added period.
C7_Witness ==
    /\ pc = "done"
    /\ Len(doc) = 1
    /\ LinePayload(1) = <<"X", ".", " ", "X">>
    /\ RunTexts(doc[1]) = << <<"X", ".", " ">>, <<"X", ".", " ">> >>
    /\ doc[1].runs[1].bold /\ ~doc[1].runs[2].bold

(***************************************************************************)
(* C10: every [SUMMARY] paragraph has the default, non-bold weight,        *)
(* whatever its text.                                                      *)
(***************************************************************************)
SummaryParagraphs == {p \in 1..Len(doc) : LineKind(doc[p].src) = "SUMMARY"}

\* C10 as stated: no run of a [SUMMARY] paragraph is bold.
C10_SummaryNeverBold ==
    \A p \in SummaryParagraphs : \A r \in 1..Len(doc[p].runs) : ~doc[p].runs[r].bold

\* The payload holds the literal phrase "US Citizen".
HasUSCitizen(payload) ==
    \E k \in 1..(Len(payload) - 2) :
        payload[k] = "US" /\ payload[k + 1] = " " /\ payload[k + 2] = "Citizen"

\* C10 as amended: a [SUMMARY] line gives one paragraph of one run, which is
\* bold exactly when the payload holds the phrase "US Citizen".
C10_SummaryBoldIffUSCitizen ==
    /\ \A k \in 1..i :
          LineKind(k) = "SUMMARY" => \E p \in 1..Len(doc) : doc[p].src = k
    /\ \A p \in SummaryParagraphs :
          /\ RunTexts(doc[p]) = <<LinePayload(doc[p].src)>>
          /\ doc[p].runs[1].bold = HasUSCitizen(LinePayload(doc[p].src))

C10_Witness ==
    /\ pc = "done"
    /\ \E p \in SummaryParagraphs :
          /\ doc[p].runs[1].bold
          /\ doc[p].runs[1].text = <<"x", " ", "US", " ", "Citizen">>

(***************************************************************************)
(* C8: last_job_para is set only by a [JOB_TITLE] line or by a [COMPANY]   *)
(* line that starts a new paragraph, and cleared only by a [DATES] line    *)
(* that consumes it or by a PLAIN line; every other line leaves it         *)
(* unchanged, so a [DATES] line after [JOB_TITLE] and such lines still     *)
(* joins the job-title paragraph.                                          *)
(***************************************************************************)
JobKinds == {"JOB_TITLE", "COMPANY", "DATES", "PLAIN"}

DatesConsumesJobBlock ==
    /\ Len(doc') = Len(doc)
    /\ RunTexts(doc'[last_job_para]) =
          Append(RunTexts(doc[last_job_para]), <<"\t">> \o CurPayload)

JobBlockStep ==
    /\ (last_job_para' # last_job_para /\ last_job_para' # 0)
       => /\ AtLine
          /\ \/ CurKind = "JOB_TITLE"
             \/ CurKind = "COMPANY" /\ last_job_para = 0
          /\ Len(doc') = Len(doc) + 1
          /\ last_job_para' = Len(doc')
    /\ (last_job_para # 0 /\ last_job_para' = 0)
       => /\ AtLine
          /\ \/ CurKind = "DATES" /\ DatesConsumesJobBlock
             \/ CurKind = "PLAIN"
    /\ (AtLine /\ CurKind \notin JobKinds) => last_job_para' = last_job_para

DatesJoinsTitleAcrossOtherLines ==
    \A j \in 1..i : \A d \in (j + 1)..i :
        (/\ LineKind(j) = "JOB_TITLE"
         /\ LineKind(d) = "DATES"
         /\ \A m \in (j + 1)..(d - 1) : LineKind(m) \notin JobKinds)
        => \E p \in 1..Len(doc) : doc[p].src = j /\ ParasOfLine(d) = {p}

\* C8: every step changes last_job_para only as stated, and dates join the
\* title across lines of the other kinds.
C8_JobBlockFrame == [][JobBlockStep]_vars /\ []DatesJoinsTitleAcrossOtherLines

C8_Witness ==
    /\ pc = "done"
    /\ Len(lines) = 4
    /\ LineKind(1) = "JOB_TITLE" /\ LineKind(2) = "LOCATION"
    /\ LineKind(3) = "BULLET" /\ LineKind(4) = "DATES"
    /\ Len(doc) = 3
    /\ ParasOfLine(4) = {1}

(***************************************************************************)
(* C9: a [COMPANY] line that finds an open job block appends " | C" to     *)
(* that paragraph and leaves the block open: the next [DATES] line, with   *)
(* no PLAIN line in between, joins that same paragraph.  A [COMPANY] line  *)
(* that finds no open job block starts a new paragraph, which becomes the  *)
(* open job block.                                                         *)
(***************************************************************************)
\* The last line before line c that sets or clears the job block; 0 if none.
LastJobLineBefore(c) ==
    LET js == {j \in 1..(c - 1) : LineKind(j) \in JobKinds}
    IN  IF js = {} THEN 0 ELSE CHOOSE j \in js : \A m \in js : m <= j

\* Line c finds an open job block: the last such line is a title or a company.
OpenJobBefore(c) ==
    /\ LastJobLineBefore(c) # 0
    /\ LineKind(LastJobLineBefore(c)) \in {"JOB_TITLE", "COMPANY"}

\* What the [COMPANY] line c did, in paragraph p.
CompanyJoined(c, p) ==
    /\ ParasOfLine(LastJobLineBefore(c)) = {p}
    /\ \E r \in 2..Len(doc[p].runs) :
          /\ doc[p].runs[r].src = c
          /\ doc[p].runs[r].text = <<" ", "|", " ">> \o LinePayload(c)
          /\ doc[p].runs[r].italic

CompanyStarted(c, p) ==
    /\ doc[p].src = c
    /\ doc[p].runs[1].src = c
    /\ doc[p].runs[1].text = LinePayload(c)

\* The first [DATES] line d after the [COMPANY] line c joins paragraph p,
\* when no line of the kinds `breakers' lies between them.
NextDatesJoins(c, p, breakers) ==
    \A d \in (c + 1)..i :
        (/\ LineKind(d) = "DATES"
         /\ \A m \in (c + 1)..(d - 1) : LineKind(m) \notin ({"DATES"} \cup breakers))
        => /\ ParasOfLine(d) = {p}
           /\ doc[p].runs[Len(doc[p].runs)].text = <<"\t">> \o LinePayload(d)

CompanyLines(breakers) ==
    \A c \in 1..i :
        LineKind(c) = "COMPANY"
        => \E p \in 1..Len(doc) :
              /\ ParasOfLine(c) = {p}
              /\ IF OpenJobBefore(c)
                 THEN CompanyJoined(c, p) /\ NextDatesJoins(c, p, breakers)
                 ELSE CompanyStarted(c, p)
              /\ c = i => last_job_para = p

\* C9 as stated: the next [DATES] line joins the company's paragraph when no
\* PLAIN line lies in between.
C9_CompanyKeepsBlockOpen == CompanyLines({"PLAIN"})

\* C9 as amended: the next [DATES] line joins the company's paragraph when
\* neither a PLAIN nor a [JOB_TITLE] line lies in between.
C9_CompanyKeepsBlockOpenUntilTitle == CompanyLines({"PLAIN", "JOB_TITLE"})

\* [COMPANY] starts the paragraph, [COMPANY] joins it, [DATES] joins it.
C9_Witness ==
    /\ pc = "done"
    /\ Len(lines) = 3
    /\ LineKind(1) = "COMPANY" /\ LineKind(2) = "COMPANY" /\ LineKind(3) = "DATES"
    /\ Len(doc) = 1
    /\ ParaText(doc[1]) = <<"Acme", " ", "|", " ", "Acme", "\t", "2020-2022">>

(***************************************************************************)
(* C11: blank lines are ignored.  The paragraphs and the two open blocks   *)
(* after the first i lines are those of a pass over the non-blank lines    *)
(* among them alone, so texts that differ only in blank lines, wherever    *)
(* they are, go through the same documents and pairing states.  The ghost  *)
(* line numbers are left out of the comparison.                            *)
(***************************************************************************)
\* The non-blank lines of ls, stripped, in order.
RECURSIVE NonBlank(_)
NonBlank(ls) ==
    IF ls = <<>> THEN <<>>
    ELSE IF Strip(Head(ls)) = <<>> THEN NonBlank(Tail(ls))
    ELSE <<Strip(Head(ls))>> \o NonBlank(Tail(ls))

\* The pass over non-blank lines ls from state s; it stops where it raises.
RECURSIVE PassOver(_, _)
PassOver(s, ls) ==
    IF ls = <<>> \/ s.raised THEN s
    ELSE PassOver(ProcessLine(s, Head(ls), 0), Tail(ls))

EmptyPass == [doc |-> <<>>, last_job_para |-> 0, last_edu_para |-> 0, raised |-> FALSE]

\* A document without the ghost line numbers.
Unnumbered(d) ==
    [p \in 1..Len(d) |->
        [d[p] EXCEPT !.src = 0,
                     !.runs = [r \in 1..Len(d[p].runs) |-> [d[p].runs[r] EXCEPT !.src = 0]]]]

\* The lines the pass has gone through: on a raise, the raising line too.
LinesDone == SubSeq(lines, 1, IF pc = "raised" THEN i + 1 ELSE i)

\* C11: the state of the pass is that of the pass over the non-blank lines.
C11_BlankLinesIgnored ==
    /\ pc # "start" => NonBlank(lines) = NonBlank(SplitOn(resume_text, <<"\n">>))
    /\ LET s == PassOver(EmptyPass, NonBlank(LinesDone))
       IN  /\ Unnumbered(doc) = Unnumbered(s.doc)
           /\ last_job_para = s.last_job_para
           /\ last_edu_para = s.last_edu_para
           /\ (pc = "raised") = s.raised

C11_Witness ==
    /\ pc = "done"
    /\ lines = <<L("JOB_TITLE"), BlankLine1, L("DATES")>>
    /\ Len(doc) = 1
    /\ RunTexts(doc[1]) = <<Payloads[KindIndex("JOB_TITLE")], <<"\t">> \o Payloads[KindIndex("DATES")]>>
    /\ last_job_para = 0

(***************************************************************************)
(* C12: the consecutive lines [EDUCATION_DEGREE] D, [EDUCATION_SCHOOL] S,  *)
(* [EDUCATION_DATES] Y, all with payload, produce exactly one paragraph,   *)
(* whose runs are D, ", S" and a tab followed by Y, and the open education *)
(* block is cleared after the dates; an [EDUCATION_DATES] line that finds  *)
(* no open education block adds one right-aligned paragraph of its own.    *)
(***************************************************************************)
EducationTriples ==
    \A k \in 1..(i - 2) :
        (/\ LineKind(k) = "EDUCATION_DEGREE"
         /\ LineKind(k + 1) = "EDUCATION_SCHOOL"
         /\ LineKind(k + 2) = "EDUCATION_DATES")
        => /\ \E p \in 1..Len(doc) :
                 /\ ParasOfLines(k, k + 2) = {p}
                 /\ doc[p].src = k
                 /\ RunTexts(doc[p]) =
                       << LinePayload(k),
                          <<",", " ">> \o LinePayload(k + 1),
                          <<"\t">> \o LinePayload(k + 2) >>
                 /\ doc[p].runs[1].bold /\ doc[p].runs[2].italic
           /\ i = k + 2 => last_edu_para = 0

EducationDatesAlone ==
    (AtLine /\ CurKind = "EDUCATION_DATES" /\ last_edu_para = 0)
    => /\ pc' = "loop"
       /\ Len(doc') = Len(doc) + 1
       /\ SubSeq(doc', 1, Len(doc)) = doc
       /\ RunTexts(doc'[Len(doc')]) = <<CurPayload>>
       /\ doc'[Len(doc')].alignment = "RIGHT"
       /\ last_edu_para' = 0

\* C12: degree, school and dates lines in sequence give one paragraph and
\* close the education block; dates without an open block stand alone.
C12_EducationPairing == [][EducationDatesAlone]_vars /\ []EducationTriples

C12_Witness ==
    /\ pc = "done"
    /\ lines = <<L("EDUCATION_DEGREE"), L("EDUCATION_SCHOOL"), L("EDUCATION_DATES")>>
    /\ Len(doc) = 1
    /\ ParaText(doc[1]) = <<"BSc", ",", " ", "MIT", "\t", "2019">>
    /\ last_edu_para = 0

(***************************************************************************)
(* C13: rendering is deterministic.  Every state of a run is a function of *)
(* the input text and of the position of the run (pc and i): the lines,    *)
(* the paragraphs with their runs and attributes and the two open blocks   *)
(* are those of replaying the text up to that position.  So two runs on    *)
(* the same text go through the same states: a run that took a different  *)
(* step from some state would reach a position in a state other than the   *)
(* replayed one, or return before the last line.  No line matches two      *)
(* patterns, so the order in which the patterns dict is iterated does not  *)
(* matter.                                                                 *)
(***************************************************************************)
\* The pass over the lines ls[k..m], numbered as in the text, from state s.
RECURSIVE Replay(_, _, _, _)
Replay(s, ls, k, m) ==
    IF k > m \/ s.raised THEN s
    ELSE LET line == Strip(ls[k])
         IN  Replay(IF line = <<>> THEN s ELSE ProcessLine(s, line, k), ls, k + 1, m)

\* The lines of the text once split.
LinesOf(text) == SplitOn(Strip(text), <<"\n">>)

StateIsFunctionOfInput ==
    /\ lines = IF pc = "start" THEN <<>> ELSE LinesOf(resume_text)
    /\ i <= Len(lines)
    /\ LET s == Replay(EmptyPass, lines, 1, IF pc = "raised" THEN i + 1 ELSE i)
       IN  /\ doc = s.doc
           /\ last_job_para = s.last_job_para
           /\ last_edu_para = s.last_edu_para
           /\ (pc = "raised") = s.raised
    /\ pc = "raised" => Replay(EmptyPass, lines, 1, i).raised = FALSE
    /\ pc = "done" => i = Len(lines)

OnePatternPerLine ==
    \A k \in 1..Len(lines) :
        Cardinality({m \in 1..Len(patterns) : PatternMatches(patterns[m], StrippedLine(k))}) <= 1

EmittingLine(k) == LineKind(k) \notin {"BLANK", "EMPTY"}

ReturnedComplete ==
    /\ i = Len(lines)
    /\ ~Replay(EmptyPass, LinesOf(resume_text), 1, Len(LinesOf(resume_text))).raised
    /\ \A k \in 1..Len(lines) : EmittingLine(k) => ParasOfLine(k) # {}

\* C14: a returned document is complete; a failed run does not return.
C14_CompleteOrRaises ==
    /\ pc = "done" => ReturnedComplete
    /\ (pc = "raised" \/ (pc = "loop" /\ i < Len(lines))) => ~ENABLED Save

C14_Witness ==
    /\ pc = "raised"
    /\ Len(lines) = 2
    /\ i = 1
    /\ LineKind(1) = "EMPTY"
    /\ LineKind(2) = "SKILLS"
    /\ ~ENABLED Save

(***************************************************************************)
(* AzureStorageManager.update_tracking_file                                *)
(* (src/src/function_app/azure_storage_manager.py).                        *)
(*                                                                         *)
(* The tracking blob holds a CSV text: here the sequence of its rows, a    *)
(* row being the sequence of its cells.  csv.DictReader takes the first    *)
(* row as the field names and gives every later row as a dict from those   *)
(* names to the cells; csv.DictWriter writes the cells of a dict in the    *)
(* order of its own fieldnames and raises ValueError on a dict with a key  *)
(* that is not one of them.  A call goes through download, rebuild and     *)
(* upload; update_calls holds the calls in the order they were made.       *)
(***************************************************************************)
MaxCalls == 3

fieldnames == <<"job_title", "company", "role", "tailored_resume_identifier", "date_modified">>

Cells(row) == {row[j] : j \in 1..Len(row)}

\* dict(zip(header, row)): of two equal field names the later cell wins.
RowDict(header, row) ==
    [key \in Cells(header) |->
        row[CHOOSE j \in 1..Len(header) :
                /\ header[j] = key
                /\ \A m \in 1..Len(header) : header[m] = key => m <= j]]

\* csv.DictReader over the rows of a text: the dicts of the rows after the
\* first.
DictReader(rows) ==
    IF rows = <<>> THEN <<>>
    ELSE [k \in 1..(Len(rows) - 1) |-> RowDict(rows[1], rows[k + 1])]

\* csv.DictWriter.writerow raises on a key outside fieldnames.
WriterRaises(rowdict) == \E key \in DOMAIN rowdict : key \notin Cells(fieldnames)

\* The row csv.DictWriter.writerow writes: rowdict.get(key, "") per field.
WriterRow(rowdict) ==
    [j \in 1..Len(fieldnames) |->
        IF fieldnames[j] \in DOMAIN rowdict THEN rowdict[fieldnames[j]] ELSE ""]

\* The loop "for row in reader: writer.writerow(row)" from dict k on; the
\* result is the output so far and whether a writerow raised.
RECURSIVE CopyRows(_, _, _)
CopyRows(reader, k, output) ==
    IF k > Len(reader) THEN [output |-> output, raised |-> FALSE]
    ELSE IF WriterRaises(reader[k]) THEN [output |-> output, raised |-> TRUE]
    ELSE CopyRows(reader, k + 1, Append(output, WriterRow(reader[k])))

\* Lines 109-129: the header when there is no existing data, the existing
\* entries, the new entry.
RebuildOutput(existing_data, tracking_entry) ==
    LET copied == IF existing_data = <<>>
                  THEN [output |-> <<fieldnames>>, raised |-> FALSE]
                  ELSE CopyRows(DictReader(existing_data), 1, <<>>)
    IN  IF copied.raised \/ WriterRaises(tracking_entry) THEN copied
        ELSE [copied EXCEPT !.output = Append(@, WriterRow(tracking_entry))]

\* The tracking entry process_resume builds (resume_agent.py, 123-129).
Entry(job_title, company, role, identifier, date_modified) ==
    [key \in Cells(fieldnames) |->
        CASE key = "job_title" -> job_title
          [] key = "company" -> company
          [] key = "role" -> role
          [] key = "tailored_resume_identifier" -> identifier
          [] key = "date_modified" -> date_modified]

\* The entries submitted: two full ones, one of the defaults of
\* process_resume, one whose values are the field names.
Entries ==
    {Entry("Engineer", "Acme", "Engineering", "Resume_A.docx", "2024-01-01"),
     Entry("Analyst", "Initech", "Finance", "Resume_B.docx", "2024-01-02"),
     Entry("Not Specified", "Not Specified", "Not Specified", "Resume_C.docx", ""),
     Entry("job_title", "company", "role", "tailored_resume_identifier", "date_modified")}

CallFinished(c) == update_calls[c].pc \in {"returned", "raised"}

\* update_tracking_file is called with an entry, after the earlier calls
\* have ended.
CallUpdate(tracking_entry) ==
    /\ Len(update_calls) < MaxCalls
    /\ \A c \in 1..Len(update_calls) : CallFinished(c)
    /\ update_calls' = Append(update_calls,
            [tracking_entry |-> tracking_entry, pc |-> "download",
             existing_data |-> <<>>, output |-> <<>>])
    /\ UNCHANGED tracking_blob
    /\ UNCHANGED outside_tracking

\* Lines 100-106: the text of the blob, or "" when the download raises.
Download(c) ==
    /\ update_calls[c].pc = "download"
    /\ update_calls' = [update_calls EXCEPT
            ![c].existing_data = IF tracking_blob.exists THEN tracking_blob.rows ELSE <<>>,
            ![c].pc = "rebuild"]
    /\ UNCHANGED tracking_blob
    /\ UNCHANGED outside_tracking

\* Lines 109-129; a ValueError of writerow is logged and re-raised (140-142).
Rebuild(c) ==
    /\ update_calls[c].pc = "rebuild"
    /\ LET built == RebuildOutput(update_calls[c].existing_data, update_calls[c].tracking_entry)
       IN  update_calls' = [update_calls EXCEPT
               ![c].output = built.output,
               ![c].pc = IF built.raised THEN "raised" ELSE "upload"]
    /\ UNCHANGED tracking_blob
    /\ UNCHANGED outside_tracking

\* Lines 132-138: upload_blob with overwrite=True, return True.
Upload(c) ==
    /\ update_calls[c].pc = "upload"
    /\ tracking_blob' = [exists |-> TRUE, rows |-> update_calls[c].output]
    /\ update_calls' = [update_calls EXCEPT ![c].pc = "returned"]
    /\ UNCHANGED outside_tracking

NextTracking ==
    \/ \E tracking_entry \in Entries : CallUpdate(tracking_entry)
    \/ \E c \in 1..Len(update_calls) : Download(c)
    \/ \E c \in 1..Len(update_calls) : Rebuild(c)
    \/ \E c \in 1..Len(update_calls) : Upload(c)

InitTracking == DocxIdle /\ OutsideDocxIdle

SpecTracking == InitTracking /\ [][NextTracking]_vars

(***************************************************************************)
(* C15: after any sequence of update_tracking_file calls that starts from  *)
(* a missing tracking file, the stored file is the header row followed by  *)
(* one row per entry submitted so far, in submission order, and no call    *)
(* raised.                                                                 *)
(***************************************************************************)
EntryRow(tracking_entry) == [j \in 1..Len(fieldnames) |-> tracking_entry[fieldnames[j]]]

SubmittedRows == [c \in 1..Len(update_calls) |-> EntryRow(update_calls[c].tracking_entry)]

AllCallsFinished == \A c \in 1..Len(update_calls) : CallFinished(c)

\* C15: the tracking file is the header and the submitted entries, and no
\* call fails.
C15_HeaderAndAllEntries ==
    /\ \A c \in 1..Len(update_calls) : update_calls[c].pc # "raised"
    /\ (update_calls # <<>> /\ AllCallsFinished)
       => /\ tracking_blob.exists
          /\ tracking_blob.rows = <<fieldnames>> \o SubmittedRows

(***************************************************************************)
(* ResumeAgent.process_resume (src/src/function_app/resume_agent.py).      *)
(*                                                                         *)
(* One action per step of the method.  What a collaborator does is an      *)
(* input of the step: it returns or it raises.  agent.called is a ghost:   *)
(* the collaborators called so far, each with its outcome.  pc "raised"    *)
(* stands for an exception that leaves process_resume.                     *)
(***************************************************************************)
\* The arguments: a path that exists or not, and strings that are empty or
\* not.
AgentArgs ==
    [resume_file_path : {"", "missing.pdf", "cv.pdf"},
     job_description : {"", "jd"},
     user_name : {"", "Ann", "Bob"},
     original_filename : {"", "cv.pdf"}]

\* os.path.exists
PathExists(path) == path = "cv.pdf"

\* What extract_text_from_file, rewrite_resume and the other collaborators
\* may do.
ExtractOutcomes == {"text", "blank", "none", "raises"}

\* rewrite_resume returns nothing, a dict with "error" (and the fallback
\* text), a dict with the rewritten text, a dict without text, or raises.
RewriteOutcomes == {"none", "error", "text", "no_text", "raises"}

CallOutcomes == {"ok", "raises"}

\* The dictionaries process_resume returns.
ErrorResult(message) ==
    [status |-> "error", message |-> message,
     keys |-> {"status", "message", "error"}, tailored_resume_url |-> "none"]

SuccessResult(resume_url) ==
    [status |-> "success", message |-> "Resume successfully tailored and stored",
     keys |-> {"status", "message", "data"}, tailored_resume_url |-> resume_url]

\* The agent after calling a collaborator.
Called(name, outcome) == [agent EXCEPT !.called = Append(@, <<name, outcome>>)]

Returned(a, result) == [a EXCEPT !.pc = "returned", !.result = result]

\* Mutant of OuterExcept: the exception leaves process_resume.
OuterExceptReraises(a) == [a EXCEPT !.pc = "raised"]

\* Lines 160-166: the outer except clause.
OuterExcept(a) == Returned(a, ErrorResult("Failed to process resume"))

\* Lines 48-56.
Validate ==
    /\ agent.pc = "validate"
    /\ agent' =
         IF \/ agent.args.resume_file_path = ""
            \/ ~PathExists(agent.args.resume_file_path)
            \/ agent.args.job_description = ""
            \/ agent.args.user_name = ""
            \/ agent.args.original_filename = ""
         THEN OuterExcept(agent)
         ELSE [agent EXCEPT !.pc = "extract"]
    /\ UNCHANGED outside_agent

\* Lines 58-70.
ExtractText ==
    /\ agent.pc = "extract"
    /\ \E outcome \in ExtractOutcomes :
          agent' =
            IF outcome = "text"
            THEN [Called("extract_text_from_file", outcome) EXCEPT !.pc = "rewrite"]
            ELSE Returned(Called("extract_text_from_file", outcome),
                          ErrorResult("Failed to extract text from resume"))
    /\ UNCHANGED outside_agent

\* Mutant of RewriteStep: a result with "error" and a fallback text goes on
\* to the DOCX step.
RewriteStepKeepsFallback ==
    /\ agent.pc = "rewrite"
    /\ \E outcome \in RewriteOutcomes :
          agent' =
            IF outcome \in {"text", "no_text", "error"}
            THEN [Called("rewrite_resume", outcome) EXCEPT
                      !.pc = "docx",
                      !.rewrite_result = IF outcome = "no_text" THEN outcome ELSE "text"]
            ELSE Returned(Called("rewrite_resume", outcome),
                          ErrorResult("Failed to rewrite resume"))
    /\ UNCHANGED outside_agent

\* Lines 72-85.
RewriteStep ==
    /\ agent.pc = "rewrite"
    /\ \E outcome \in RewriteOutcomes :
          agent' =
            IF outcome \in {"text", "no_text"}
            THEN [Called("rewrite_resume", outcome) EXCEPT
                      !.pc = "docx", !.rewrite_result = outcome]
            ELSE Returned(Called("rewrite_resume", outcome),
                          ErrorResult("Failed to rewrite resume"))
    /\ UNCHANGED outside_agent

\* Lines 87-100: without rewritten text text_to_docx is not called.
GenerateDocx ==
    /\ agent.pc = "docx"
    /\ IF agent.rewrite_result = "no_text"
       THEN agent' = Returned(agent, ErrorResult("Failed to generate DOCX file"))
       ELSE \E outcome \in CallOutcomes :
               agent' =
                 IF outcome = "ok"
                 THEN [Called("text_to_docx", outcome) EXCEPT !.pc = "identifier"]
                 ELSE Returned(Called("text_to_docx", outcome),
                               ErrorResult("Failed to generate DOCX file"))
    /\ UNCHANGED outside_agent

\* Lines 102-106: generate_unique_identifier is called outside the inner
\* try blocks.
GenerateIdentifier ==
    /\ agent.pc = "identifier"
    /\ \E outcome \in CallOutcomes :
          agent' =
            IF outcome = "ok"
            THEN [Called("generate_unique_identifier", outcome) EXCEPT
                      !.pc = "upload",
                      !.tailored_filename = <<"Resume", agent.args.user_name>>]
            ELSE OuterExcept(Called("generate_unique_identifier", outcome))
    /\ UNCHANGED outside_agent

\* Lines 108-118.
UploadTailored ==
    /\ agent.pc = "upload"
    /\ \E outcome \in CallOutcomes :
          agent' =
            IF outcome = "ok"
            THEN [Called("upload_tailored_resume", outcome) EXCEPT
                      !.pc = "track",
                      !.resume_url = <<"https://blob", agent.tailored_filename>>]
            ELSE Returned(Called("upload_tailored_resume", outcome),
                          ErrorResult("Failed to upload tailored resume"))
    /\ UNCHANGED outside_agent

\* Mutant of TrackStep: a failed tracking update fails the operation.
TrackStepFails ==
    /\ agent.pc = "track"
    /\ \E outcome \in CallOutcomes :
          agent' =
            IF outcome = "ok"
            THEN [Called("update_tracking_file", outcome) EXCEPT !.pc = "delete"]
            ELSE Returned(Called("update_tracking_file", outcome),
                          ErrorResult("Failed to update tracking file"))
    /\ UNCHANGED outside_agent

\* Lines 120-133: a failure is logged and the method goes on.
TrackStep ==
    /\ agent.pc = "track"
    /\ \E outcome \in CallOutcomes :
          agent' = [Called("update_tracking_file", outcome) EXCEPT !.pc = "delete"]
    /\ UNCHANGED outside_agent

\* Lines 135-141: a failure is logged and the method goes on.
DeleteStep ==
    /\ agent.pc = "delete"
    /\ \E outcome \in CallOutcomes :
          agent' = [Called("delete_original_resume", outcome) EXCEPT !.pc = "success"]
    /\ UNCHANGED outside_agent

\* Lines 143-158.
ReturnSuccess ==
    /\ agent.pc = "success"
    /\ agent' = Returned(agent, SuccessResult(agent.resume_url))
    /\ UNCHANGED outside_agent

NextAgent ==
    \/ Validate
    \/ ExtractText
    \/ RewriteStep
    \/ GenerateDocx
    \/ GenerateIdentifier
    \/ UploadTailored
    \/ TrackStep
    \/ DeleteStep
    \/ ReturnSuccess

\* process_resume is entered with its arguments.
AgentStart ==
    \E args \in AgentArgs :
        agent = [pc |-> "validate", args |-> args, called |-> <<>>,
                 rewrite_result |-> "none", tailored_filename |-> "none",
                 resume_url |-> "none", result |-> [status |-> "none"]]

InitAgent ==
    DocxIdle /\ TrackingIdle /\ AgentStart /\ IdentifierIdle /\ RecommendIdle /\ RewriteIdle
    /\ RouteIdle

SpecAgent == InitAgent /\ [][NextAgent]_vars

\* The outcome of the call of a collaborator; "not called" when it was not.
OutcomeOf(name) ==
    IF \E k \in 1..Len(agent.called) : agent.called[k][1] = name
    THEN agent.called[CHOOSE k \in 1..Len(agent.called) : agent.called[k][1] = name][2]
    ELSE "not called"

(***************************************************************************)
(* C16: process_resume never raises.  Whatever its arguments and whatever  *)
(* a collaborator does, no exception leaves it, and what it returns is a   *)
(* dictionary with status "success" or "error", with an "error" entry when *)
(* the status is "error" and a "data" entry when it is "success".          *)
(***************************************************************************)
\* C16: process_resume returns a status dictionary and never raises.
C16_NeverRaises ==
    /\ agent.pc # "raised"
    /\ agent.pc = "returned"
       => /\ agent.result.status \in {"success", "error"}
          /\ agent.result.status = "error" => "error" \in agent.result.keys
          /\ agent.result.status = "success" => "data" \in agent.result.keys
    /\ agent.pc # "returned" => ENABLED NextAgent

C16_Witness ==
    /\ agent.pc = "returned"
    /\ OutcomeOf("generate_unique_identifier") = "raises"
    /\ agent.result.status = "error"
    /\ "error" \in agent.result.keys

(***************************************************************************)
(* C17: once extraction, rewriting, DOCX generation and upload succeeded,  *)
(* process_resume returns status "success" with the URL of the uploaded    *)
(* resume, whether or not update_tracking_file or delete_original_resume   *)
(* raised.                                                                 *)
(***************************************************************************)
\* C17: a failed tracking update or deletion does not fail the operation.
C17_TrackingAndDeleteNotFatal ==
    (agent.pc = "returned" /\ OutcomeOf("upload_tailored_resume") = "ok")
    => /\ OutcomeOf("extract_text_from_file") = "text"
       /\ OutcomeOf("rewrite_resume") = "text"
       /\ OutcomeOf("text_to_docx") = "ok"
       /\ OutcomeOf("update_tracking_file") \in CallOutcomes
       /\ OutcomeOf("delete_original_resume") \in CallOutcomes
       /\ agent.result.status = "success"
       /\ agent.result.tailored_resume_url = agent.resume_url
       /\ agent.resume_url # "none"

C17_Witness ==
    /\ agent.pc = "returned"
    /\ OutcomeOf("upload_tailored_resume") = "ok"
    /\ OutcomeOf("update_tracking_file") = "raises"
    /\ OutcomeOf("delete_original_resume") = "raises"
    /\ agent.result.status = "success"
    /\ agent.result.tailored_resume_url = <<"https://blob", <<"Resume", "Ann">>>>

(***************************************************************************)
(* generate_unique_identifier (src/src/function_app/resume_rewriter.py)    *)
(* and the upload of the tailored resume under the generated name          *)
(* (process_resume steps 4 and 5, upload_tailored_resume).                 *)
(*                                                                         *)
(* A text is the sequence of its characters.  The clock counts half        *)
(* seconds; the timestamp of the file name has whole seconds.  The         *)
(* container maps a blob name to the number of the call whose document it  *)
(* holds.                                                                  *)
(***************************************************************************)
MaxUploads == 2

MaxClock == 3

\* re.sub(r'[^\w\s-]', '', text): letters, digits, "_", white space and "-"
\* are kept.
RECURSIVE KeepWordChars(_)
KeepWordChars(text) ==
    IF text = <<>> THEN <<>>
    ELSE IF Head(text) \in {"A", "B", "C", "_", "-", " ", "\t"}
         THEN <<Head(text)>> \o KeepWordChars(Tail(text))
         ELSE KeepWordChars(Tail(text))

\* str.replace(' ', '_')
SpacesToUnderscores(text) == [k \in 1..Len(text) |-> IF text[k] = " " THEN "_" ELSE text[k]]

sanitize(text) == SpacesToUnderscores(Strip(KeepWordChars(text)))

\* datetime.now().strftime("%Y%m%d%H%M%S"): the time cut to the second.
timestamp(now) == now \div 2

generate_unique_identifier(name, job_title, company, now) ==
    <<"Resume", "_">> \o sanitize(name) \o <<"_">> \o sanitize(job_title)
        \o <<"_">> \o sanitize(company) \o <<"_", timestamp(now), ".docx">>

\* The user names, job titles and company names of the calls.
UserNames == {<<"A">>, <<"A", ".">>, <<"A", " ", "B">>}

JobTitles == {<<"B">>, <<"B", " ", "C">>, <<"C">>}

CompanyNames == {<<"C">>}

\* Time passes.
Tick ==
    /\ clock < MaxClock
    /\ clock' = clock + 1
    /\ UNCHANGED <<issued, tailored_container>>
    /\ UNCHANGED outside_identifier

\* upload_blob(resume_data, overwrite=True) under the name filename; the
\* data is that of call number call.
upload_tailored_resume(container, filename, call) ==
    [blob \in DOMAIN container \cup {filename} |->
        IF blob = filename THEN call ELSE container[blob]]

\* process_resume names the tailored resume and uploads it.
NameAndUpload(name, job_title, company) ==
    /\ Len(issued) < MaxUploads
    /\ LET tailored_filename == generate_unique_identifier(name, job_title, company, clock)
       IN  /\ issued' = Append(issued, tailored_filename)
           /\ tailored_container' =
                  upload_tailored_resume(tailored_container, tailored_filename, Len(issued) + 1)
    /\ UNCHANGED clock
    /\ UNCHANGED outside_identifier

NextIdentifier ==
    \/ Tick
    \/ \E name \in UserNames, job_title \in JobTitles, company \in CompanyNames :
          NameAndUpload(name, job_title, company)

InitIdentifier == DocxIdle /\ OutsideDocxIdle

SpecIdentifier == InitIdentifier /\ [][NextIdentifier]_vars

(***************************************************************************)
(* C18: generate_unique_identifier returns a unique file name.  No two     *)
(* calls return the same identifier, and the blob of every tailored resume *)
(* uploaded so far still holds the document of its own call.               *)
(***************************************************************************)
\* C18: identifiers are unique and no upload replaces an earlier blob.
C18_IdentifiersUnique ==
    /\ \A j, k \in 1..Len(issued) : j # k => issued[j] # issued[k]
    /\ \A k \in 1..Len(issued) : tailored_container[issued[k]] = k

(***************************************************************************)
(* get_gemini_recommendations (src/src/function_app/function_app.py).      *)
(*                                                                         *)
(* One action per attempt of the retry loop; what the API does at an       *)
(* attempt is an input of the step.  A returned dictionary is the set of   *)
(* its keys.  recommend.history is a ghost: what the API did at the        *)
(* attempts so far.                                                        *)
(***************************************************************************)
recommend_max_retries == 3

required_keys ==
    {"matching_skills", "missing_skills", "improvement_suggestions",
     "potential_red_flags", "experience_tailoring", "gap_analysis"}

\* What the API does at an attempt: an HTTP 429 without Retry-After
\* header, with one in seconds or with one that is a date; another error
\* status; a timeout or another request error; a 200 whose body is no
\* JSON, is JSON of another shape than an object with candidates, has no
\* text, has text without braces, has braces that do not parse, or has a
\* JSON object.
FailureOutcomes ==
    {"429", "429_seconds", "429_date", "400", "500", "timeout", "request_error",
     "bad_body", "bad_shape", "no_text", "no_json", "bad_json"}

\* The JSON objects of the model's answer: per required key, whether it
\* has a value, is empty or is missing; "extra" is a key of its own.
AnswerShapes == {"value", "empty", "missing"}

Answers ==
    {[key \in required_keys |-> "value"],
     [key \in required_keys |-> "missing"],
     [key \in required_keys |-> "empty"],
     [key \in required_keys |-> IF key = "gap_analysis" THEN "missing" ELSE "value"],
     [key \in required_keys |-> IF key = "matching_skills" THEN "empty" ELSE "value"]}

\* What the diagnostic request of lines 337-353 does.
DebugOutcomes == {"ok", "timeout", "request_error"}

\* The keys of the answer as parsed.
ParsedKeys(answer) == {key \in required_keys : answer[key] # "missing"} \cup {"extra"}

\* Mutant of WithDefaults: no default is added for a missing key.
WithoutDefaults(answer) == ParsedKeys(answer)

\* Lines 449-459: a default for every required key that is missing or
\* empty; the keys of the dictionary after the loop.
WithDefaults(answer) ==
    ParsedKeys(answer) \cup {key \in required_keys : answer[key] \in {"missing", "empty"}}

\* The fallback dictionaries written out in the source.
FallbackKeys == required_keys

ErrorKeys == required_keys \cup {"error"}

DetailedErrorKeys == required_keys \cup {"error", "details"}

RecommendReturn(r, kind, keys) ==
    [r EXCEPT !.pc = "returned", !.result = [kind |-> kind, keys |-> keys]]

\* time.sleep and continue.
RecommendRetry(r) == [r EXCEPT !.sleeps = @ + 1, !.attempt = @ + 1]

\* Lines 578-598: the loop ended without a return.
RecommendGiveUp(r) == RecommendReturn(r, "unable to connect", ErrorKeys)

\* Lines 600-655: the outer except clause.
RecommendOuterExcept(r) == RecommendReturn(r, "exception", DetailedErrorKeys)

\* Mutant of RetryOrReturn: the last attempt is retried as well.
RetryOrReturnOnceMore(r, kind, keys) ==
    IF r.attempt <= recommend_max_retries THEN RecommendRetry(r)
    ELSE RecommendReturn(r, kind, keys)

\* A failure that is retried while attempts remain and returns the given
\* dictionary on the last attempt.
RetryOrReturn(r, kind, keys) ==
    IF r.attempt < recommend_max_retries THEN RecommendRetry(r)
    ELSE RecommendReturn(r, kind, keys)

\* The body of the loop (lines 284-576) for what the API did.
AfterFailure(r, outcome, debug) ==
    CASE outcome \in {"429", "429_seconds"} -> RetryOrReturn(r, "rate limit", ErrorKeys)
      [] outcome = "429_date" ->
            IF r.attempt < recommend_max_retries THEN RecommendOuterExcept(r)
            ELSE RecommendReturn(r, "rate limit", ErrorKeys)
      [] outcome = "500" -> RetryOrReturn(r, "api error", ErrorKeys)
      [] outcome = "400" ->
            IF r.attempt < recommend_max_retries THEN RecommendRetry(r)
            ELSE IF debug = "ok"
                 THEN RecommendReturn([r EXCEPT !.debug_requests = @ + 1], "api error", ErrorKeys)
                 ELSE RecommendGiveUp([r EXCEPT !.debug_requests = @ + 1])
      [] outcome \in {"timeout", "request_error"} ->
            IF r.attempt < recommend_max_retries THEN RecommendRetry(r)
            ELSE RecommendGiveUp(r)
      [] outcome = "bad_body" -> RetryOrReturn(r, "response error", FallbackKeys)
      [] outcome = "bad_shape" -> RecommendOuterExcept(r)
      [] outcome = "no_text" -> RetryOrReturn(r, "empty response", ErrorKeys)
      [] outcome = "no_json" -> RetryOrReturn(r, "no json", FallbackKeys)
      [] outcome = "bad_json" -> RetryOrReturn(r, "parse error", FallbackKeys)

Requested(outcome) ==
    [recommend EXCEPT !.requests = @ + 1, !.history = Append(@, outcome)]

\* Lines 174-183: os.environ["GEMINI_API_KEY"] raises KeyError when unset.
RecommendEnter ==
    /\ recommend.pc = "enter"
    /\ recommend' = IF recommend.api_key THEN [recommend EXCEPT !.pc = "attempt"]
                    ELSE RecommendOuterExcept(recommend)
    /\ UNCHANGED outside_recommend

\* An attempt that fails.
FailedAttempt ==
    /\ recommend.pc = "attempt"
    /\ \E outcome \in FailureOutcomes, debug \in DebugOutcomes :
          /\ debug # "ok" => (outcome = "400" /\ recommend.attempt = recommend_max_retries)
          /\ recommend' = AfterFailure(Requested(outcome), outcome, debug)
    /\ UNCHANGED outside_recommend

\* Lines 431-472: an attempt whose answer parses.
ParsedAttempt ==
    /\ recommend.pc = "attempt"
    /\ \E answer \in Answers :
          recommend' = RecommendReturn(Requested("json"), "recommendations", WithDefaults(answer))
    /\ UNCHANGED outside_recommend

NextRecommend == RecommendEnter \/ FailedAttempt \/ ParsedAttempt

RecommendStart ==
    \E api_key \in BOOLEAN :
        recommend = [pc |-> "enter", api_key |-> api_key, attempt |-> 1, requests |-> 0,
                     debug_requests |-> 0, sleeps |-> 0, history |-> <<>>,
                     result |-> [kind |-> "none", keys |-> {}]]

InitRecommend ==
    DocxIdle /\ TrackingIdle /\ AgentIdle /\ IdentifierIdle /\ RecommendStart /\ RewriteIdle
    /\ RouteIdle

SpecRecommend == InitRecommend /\ [][NextRecommend]_vars

(***************************************************************************)
(* C19: get_gemini_recommendations never raises and returns structured     *)
(* data on every path: the call always has a step to take until it has     *)
(* returned, and the dictionary it returns has all six keys                *)
(* matching_skills, missing_skills, improvement_suggestions,               *)
(* potential_red_flags, experience_tailoring and gap_analysis.             *)
(***************************************************************************)
\* C19: every returned dictionary has the six keys; the call never raises.
C19_AlwaysSixKeys ==
    /\ recommend.pc \in {"enter", "attempt", "returned"}
    /\ recommend.pc = "returned" => required_keys \subseteq recommend.result.keys
    /\ recommend.pc # "returned" => (ENABLED NextRecommend /\ recommend.result.keys = {})
    /\ recommend.pc = "attempt" => recommend.attempt \in 1..recommend_max_retries

C19_Witness ==
    /\ recommend.pc = "returned"
    /\ recommend.history = <<"429", "no_text", "json">>
    /\ recommend.result.kind = "recommendations"
    /\ "extra" \in recommend.result.keys
    /\ required_keys \subseteq recommend.result.keys

(***************************************************************************)
(* rewrite_resume and generate_fallback_resume                             *)
(* (src/src/function_app/resume_rewriter.py).                              *)
(*                                                                         *)
(* One action per attempt of the retry loop and one for the call on the    *)
(* "v1main" model; what the API does is an input of the step.  A returned  *)
(* dictionary is the set of its keys and the kind of text under            *)
(* "rewritten_resume_text".  rewrite.history is a ghost: what the API did  *)
(* at the attempts so far.  pc "raised" stands for an exception that       *)
(* leaves rewrite_resume.                                                  *)
(***************************************************************************)
rewrite_max_retries == 3

\* What generate_content and the handling of its response do at an attempt:
\* an exception whose message names a quota or rate limit, another
\* exception (a blocked response, a rewritten_resume_text that is no
\* text), no response, text without braces, braces that do not parse, a
\* JSON object whose text has fewer than 4000 characters (or none), a JSON
\* object with a long enough text.
RewriteApiOutcomes ==
    {"raises_quota", "raises_other", "no_response", "no_json", "bad_json", "short", "long"}

\* generate_fallback_resume: the formatted fallback, or the minimal one of
\* its except clause when the job description is no string.
generate_fallback_resume(r) ==
    IF r.job_description_is_text THEN "fallback" ELSE "minimal fallback"

RewriteReturn(r, keys, text) ==
    [r EXCEPT !.pc = "returned", !.result = [keys |-> keys, text |-> text]]

\* The failure dictionaries with the fallback text.
FallbackResult(r, keys) == RewriteReturn(r, keys, generate_fallback_resume(r))

\* Mutant of RewriteOuterExcept: the exception leaves rewrite_resume.
RewriteOuterExceptReraises(r) == [r EXCEPT !.pc = "raised"]

\* Lines 296-303: the outer except clause.
RewriteOuterExcept(r) == FallbackResult(r, {"error", "rewritten_resume_text"})

\* Mutant of RewriteRetry: the retry does not advance the attempt counter.
RewriteRetrySameAttempt(r) == [r EXCEPT !.sleeps = @ + 1]

\* time.sleep(retry_delay) and continue.
RewriteRetry(r) == [r EXCEPT !.sleeps = @ + 1, !.attempt = @ + 1]

\* Lines 245-256: after the loop, a quota error returns the fallback; any
\* other goes on to the "v1main" call.
AfterLoop(r) ==
    IF r.last_error = "quota"
    THEN FallbackResult(r, {"error", "rewritten_resume_text"})
    ELSE [r EXCEPT !.pc = "v1main"]

\* The body of the loop (lines 149-243) for what the API did.
AfterRewriteAttempt(r, outcome) ==
    LET last == r.attempt = rewrite_max_retries
    IN  CASE outcome \in {"raises_quota", "raises_other"} ->
                LET failed == [r EXCEPT !.last_error =
                                   IF outcome = "raises_quota" THEN "quota" ELSE "other"]
                IN  IF last THEN AfterLoop(failed) ELSE RewriteRetry(failed)
          [] outcome = "no_response" ->
                IF last THEN FallbackResult(r, {"error", "rewritten_resume_text"})
                ELSE RewriteRetry(r)
          [] outcome \in {"no_json", "bad_json"} ->
                IF last
                THEN FallbackResult(r, {"error", "raw_response", "rewritten_resume_text"})
                ELSE RewriteRetry(r)
          [] outcome = "short" ->
                IF last THEN RewriteReturn(r, {"error", "rewritten_resume_text"}, "short")
                ELSE RewriteRetry(r)
          [] outcome = "long" ->
                RewriteReturn(r, {"rewritten_resume_text", "changes_summary", "job_title",
                                  "company_name", "role", "date_modified"}, "model")

\* Lines 16-143: without API key EnvironmentError is raised; with it
\* extract_job_details (line 39) makes its one request and cannot raise.
RewriteEnter ==
    /\ rewrite.pc = "enter"
    /\ rewrite' = IF rewrite.api_key
                  THEN [rewrite EXCEPT !.pc = "attempt", !.detail_calls = @ + 1]
                  ELSE RewriteOuterExcept(rewrite)
    /\ UNCHANGED outside_rewrite

\* Lines 149-243: one attempt on the configured model.
RewriteAttempt ==
    /\ rewrite.pc = "attempt"
    /\ \E outcome \in RewriteApiOutcomes :
          rewrite' = AfterRewriteAttempt(
              [rewrite EXCEPT !.calls = @ + 1, !.history = Append(@, outcome)], outcome)
    /\ UNCHANGED outside_rewrite

\* Lines 258-294: the call on "v1main"; its exception is re-raised into
\* the outer except clause, its response is not used.
V1MainCall ==
    /\ rewrite.pc = "v1main"
    /\ \E outcome \in CallOutcomes :
          LET called == [rewrite EXCEPT !.v1main_calls = @ + 1]
          IN  rewrite' = IF outcome = "raises" THEN RewriteOuterExcept(called)
                         ELSE FallbackResult(called, {"error", "rewritten_resume_text"})
    /\ UNCHANGED outside_rewrite

NextRewrite == RewriteEnter \/ RewriteAttempt \/ V1MainCall

RewriteStart ==
    \E api_key \in BOOLEAN, is_text \in BOOLEAN :
        rewrite = [pc |-> "enter", api_key |-> api_key, job_description_is_text |-> is_text,
                   attempt |-> 1, detail_calls |-> 0, calls |-> 0, v1main_calls |-> 0,
                   sleeps |-> 0,
                   last_error |-> "none", history |-> <<>>,
                   result |-> [keys |-> {}, text |-> "none"]]

InitRewrite ==
    DocxIdle /\ TrackingIdle /\ AgentIdle /\ IdentifierIdle /\ RecommendIdle /\ RewriteStart
    /\ RouteIdle

SpecRewrite == InitRewrite /\ [][NextRewrite]_vars

(***************************************************************************)
(* C20: rewrite_resume never raises and every dictionary it returns has    *)
(* the key "rewritten_resume_text": the model's text when the last attempt *)
(* gave a long enough text, and on every other path an "error" key with    *)
(* the fallback resume text or, after a too short text on the last         *)
(* attempt, that text.                                                     *)
(***************************************************************************)
RewriteSucceeded == rewrite.history # <<>> /\ rewrite.history[Len(rewrite.history)] = "long"

\* C20: every result has rewritten_resume_text; failures carry an error.
C20_AlwaysRewrittenText ==
    /\ rewrite.pc \in {"enter", "attempt", "v1main", "returned"}
    /\ rewrite.pc # "returned" => ENABLED NextRewrite
    /\ rewrite.pc = "returned"
       => /\ "rewritten_resume_text" \in rewrite.result.keys
          /\ RewriteSucceeded => rewrite.result.text = "model"
          /\ ~RewriteSucceeded
             => /\ "error" \in rewrite.result.keys
                /\ rewrite.result.text \in {"fallback", "minimal fallback", "short"}
                /\ rewrite.result.text = "short"
                   => rewrite.history[Len(rewrite.history)] = "short"

C20_Witness ==
    /\ rewrite.pc = "returned"
    /\ rewrite.history = <<"short", "bad_json", "raises_other">>
    /\ rewrite.v1main_calls = 1
    /\ rewrite.result = [keys |-> {"error", "rewritten_resume_text"}, text |-> "fallback"]

(***************************************************************************)
(* C21: the two open blocks are independent.  A [JOB_TITLE], [COMPANY] or  *)
(* [DATES] line changes neither last_edu_para nor the paragraph it refers  *)
(* to; an [EDUCATION_DEGREE], [EDUCATION_SCHOOL] or [EDUCATION_DATES] line *)
(* changes neither last_job_para nor the paragraph it refers to; the two   *)
(* are never the same paragraph and may both be open; the run of a dates   *)
(* line goes to its own block's paragraph or to a new paragraph; a PLAIN   *)
(* line clears both blocks and no other line clears both in one step.      *)
(***************************************************************************)
JobSideKinds == {"JOB_TITLE", "COMPANY", "DATES"}

EducationSideKinds == {"EDUCATION_DEGREE", "EDUCATION_SCHOOL", "EDUCATION_DATES"}

\* The paragraphs of the next state that hold a run of the current line.
ParasTouched ==
    {p \in 1..Len(doc') : \E r \in 1..Len(doc'[p].runs) : doc'[p].runs[r].src = i + 1}

\* The block `other' and its paragraph are as they were.
BlockUntouched(other, other_next) ==
    /\ other_next = other
    /\ other # 0 => doc'[other] = doc[other]

\* The run of a dates line is in the paragraph of its own block, or in a new
\* paragraph when that block is closed.
DatesToOwnBlock(own) ==
    ParasTouched = {IF own # 0 THEN own ELSE Len(doc) + 1}

TrackersStep ==
    AtLine
    => /\ CurKind \in JobSideKinds => BlockUntouched(last_edu_para, last_edu_para')
       /\ CurKind \in EducationSideKinds => BlockUntouched(last_job_para, last_job_para')
       /\ CurKind = "DATES" => DatesToOwnBlock(last_job_para)
       /\ CurKind = "EDUCATION_DATES" => DatesToOwnBlock(last_edu_para)
       /\ CurKind = "PLAIN" => last_job_para' = 0 /\ last_edu_para' = 0
       /\ (/\ last_job_para # 0 /\ last_edu_para # 0
           /\ last_job_para' = 0 /\ last_edu_para' = 0) => CurKind = "PLAIN"

\* The two blocks, when both open, are different paragraphs.
BlocksDistinct ==
    (last_job_para # 0 /\ last_edu_para # 0) => last_job_para # last_edu_para

\* C21: the job block and the education block are tracked independently of
\* each other, and only a PLAIN line clears both.
C21_TrackersIndependent == [][TrackersStep]_vars /\ []BlocksDistinct

\* Both blocks were open at once and each dates line joined its own block.
C21_Witness ==
    /\ pc = "done"
    /\ lines = <<L("JOB_TITLE"), L("EDUCATION_DEGREE"), L("DATES"), L("EDUCATION_DATES")>>
    /\ Len(doc) = 2
    /\ ParasOfLine(3) = {1}
    /\ ParasOfLine(4) = {2}
    /\ last_job_para = 0 /\ last_edu_para = 0

(***************************************************************************)
(* C22: rewrite_resume terminates within three attempts on the configured  *)
(* model, one call on "v1main" and two waits.  Every step advances the     *)
(* call (it enters, makes a request or returns), the requests are bounded  *)
(* and a step is enabled until the call returns.  A too short text is      *)
(* never returned as a success: before the third attempt it is followed by *)
(* a wait and another attempt, at the third attempt it is returned with an *)
(* "error" key.  rewrite.calls counts the requests of the retry loop; the  *)
(* request of extract_job_details is counted apart.                        *)
(***************************************************************************)
\* How far the call has come: it grows with every step.
RewriteProgress(r) ==
    (IF r.pc = "enter" THEN 0 ELSE 1) + r.calls + r.v1main_calls
    + (IF r.pc = "returned" THEN 1 ELSE 0)

RewriteAdvances == RewriteProgress(rewrite') > RewriteProgress(rewrite)

RewriteBounded ==
    /\ rewrite.calls <= rewrite_max_retries
    /\ rewrite.calls = Len(rewrite.history)
    /\ rewrite.v1main_calls <= 1
    /\ rewrite.detail_calls <= 1
    /\ rewrite.sleeps <= rewrite_max_retries - 1
    /\ rewrite.sleeps = (IF rewrite.pc = "attempt" THEN rewrite.calls
                         ELSE IF rewrite.calls = 0 THEN 0 ELSE rewrite.calls - 1)
    /\ rewrite.v1main_calls = 1 => rewrite.calls = rewrite_max_retries
    /\ rewrite.pc # "returned" => ENABLED NextRewrite

\* A result without "error".
RewriteSuccess == rewrite.pc = "returned" /\ "error" \notin rewrite.result.keys

ShortNeverSuccess ==
    /\ RewriteSuccess
       => /\ rewrite.result.text = "model"
          /\ rewrite.history[Len(rewrite.history)] = "long"
    /\ \A k \in 1..Len(rewrite.history) :
          rewrite.history[k] = "short"
          => IF k < rewrite_max_retries
             THEN /\ rewrite.sleeps >= k
                  /\ rewrite.pc = "attempt" \/ Len(rewrite.history) > k
             ELSE /\ rewrite.pc = "returned"
                  /\ rewrite.result = [keys |-> {"error", "rewritten_resume_text"},
                                       text |-> "short"]
                  /\ rewrite.v1main_calls = 0

\* C22: the call ends within 3 attempts, 1 "v1main" call and 2 waits, and a
\* too short text is retried or returned with an error.
C22_BoundedAttemptsShortRejected ==
    [][RewriteAdvances]_vars /\ [](RewriteBounded /\ ShortNeverSuccess)

\* Three too short answers: two waits, then the short text with an error.
C22_Witness ==
    /\ rewrite.pc = "returned"
    /\ rewrite.history = <<"short", "short", "short">>
    /\ rewrite.calls = 3 /\ rewrite.sleeps = 2 /\ rewrite.v1main_calls = 0
    /\ rewrite.result = [keys |-> {"error", "rewritten_resume_text"}, text |-> "short"]

(***************************************************************************)
(* C23: get_gemini_recommendations sends the analysis request at most      *)
(* three times and terminates.  An attempt is followed by another only     *)
(* after a failure, a wait and with fewer than three attempts made; the    *)
(* failures that are retried are all but a 429 whose Retry-After is no     *)
(* number and a body of an unexpected shape, which leave through the outer *)
(* except clause at once.  A 429 at the third attempt returns the          *)
(* rate-limit result without a wait, and a parsed answer is returned at    *)
(* once.  The diagnostic request after a 400 at the third attempt is       *)
(* counted apart.                                                          *)
(***************************************************************************)
\* The failures that leave through the outer except clause before the last
\* attempt.
Unretried == {"429_date", "bad_shape"}

RecommendProgress(r) ==
    (IF r.pc = "enter" THEN 0 ELSE 1) + r.requests + (IF r.pc = "returned" THEN 1 ELSE 0)

\* A step of an attempt: a retry comes with a wait, after a failure, before
\* the last attempt; a return comes without a wait.
AttemptStep ==
    /\ RecommendProgress(recommend') > RecommendProgress(recommend)
    /\ recommend.pc = "attempt"
       => LET outcome == recommend'.history[Len(recommend'.history)]
          IN  /\ recommend'.requests = recommend.requests + 1
              /\ IF recommend'.pc = "attempt"
                 THEN /\ recommend.attempt < recommend_max_retries
                      /\ outcome \in FailureOutcomes \ Unretried
                      /\ recommend'.attempt = recommend.attempt + 1
                      /\ recommend'.sleeps = recommend.sleeps + 1
                 ELSE /\ recommend'.pc = "returned"
                      /\ recommend'.sleeps = recommend.sleeps
                      /\ \/ recommend.attempt = recommend_max_retries
                         \/ outcome \in Unretried \cup {"json"}

RecommendBounded ==
    /\ recommend.requests <= recommend_max_retries
    /\ recommend.requests = Len(recommend.history)
    /\ recommend.sleeps <= recommend_max_retries - 1
    /\ recommend.debug_requests <= 1
    /\ recommend.debug_requests = 1
       => /\ recommend.requests = recommend_max_retries
          /\ recommend.history[recommend_max_retries] = "400"
    /\ recommend.pc = "attempt"
       => /\ recommend.requests = recommend.attempt - 1
          /\ recommend.sleeps = recommend.attempt - 1
    /\ recommend.pc # "returned" => ENABLED NextRecommend

\* The answer that parses is the last request; a 429 at the third attempt
\* gives the rate-limit result after two waits.
LastAttemptResults ==
    LET n == Len(recommend.history)
    IN  /\ \A k \in 1..(n - 1) : recommend.history[k] \in FailureOutcomes \ Unretried
        /\ (recommend.pc = "returned" /\ n > 0 /\ recommend.history[n] = "json")
           => recommend.result.kind = "recommendations"
        /\ (recommend.pc = "returned" /\ n = recommend_max_retries
            /\ recommend.history[n] \in {"429", "429_seconds", "429_date"})
           => /\ recommend.result = [kind |-> "rate limit", keys |-> ErrorKeys]
              /\ recommend.sleeps = recommend_max_retries - 1

\* C23: at most three analysis requests; retries only after a failure and a
\* wait while attempts remain; a third 429 and a parsed answer return at once.
C23_AtMostThreeRequests ==
    [][AttemptStep]_vars /\ [](RecommendBounded /\ LastAttemptResults)

\* Two retried failures, then a 429 at the third attempt.
C23_Witness ==
    /\ recommend.pc = "returned"
    /\ recommend.history = <<"timeout", "500", "429">>
    /\ recommend.requests = 3 /\ recommend.sleeps = 2
    /\ recommend.result.kind = "rate limit"

(***************************************************************************)
(* The /api/rewrite-resume route (src/app.py, rewrite_resume).             *)
(*                                                                         *)
(* RouteEnter is the handler up to the call of process_resume, whose steps *)
(* are the actions of the agent above; RouteFinish is the handler from the *)
(* return of process_resume on.  A dictionary is the set of its keys; the  *)
(* response keeps, next to the keys, the status code, the URL under        *)
(* "tailored_resume_url" ("none" when the key is absent), whether the      *)
(* error was rewritten into a warning, and (a ghost) how far the branch    *)
(* that builds a document from the fallback text came.                     *)
(***************************************************************************)
RouteRequests ==
    [method : {"GET", "POST"}, has_resume : BOOLEAN, job_description : {"", "jd"},
     user_name : {"", "Ann", "Bob"}, filename : {"", "cv.pdf"}]

Response(status_code, keys, tailored_resume_url, warning, fallback_docx) ==
    [status_code |-> status_code, keys |-> keys, original_resume_url |-> "none",
     tailored_resume_url |-> tailored_resume_url, warning |-> warning,
     fallback_docx |-> fallback_docx]

RouteReturn(response) == [route EXCEPT !.pc = "returned", !.response = response]

\* Lines 335-341: the outer except clause of the route.
RouteOuterExcept == RouteReturn(Response(500, {"error", "details"}, "none", FALSE, "none"))

\* Lines 222-266: the instructions on GET, the 400 answers, the temporary
\* file, extract_text_from_file (len(None) raises as well), ResumeAgent()
\* and the call of process_resume on the temporary file.
RouteEnter ==
    /\ route.pc = "enter"
    /\ \E extracted \in ExtractOutcomes, constructed \in CallOutcomes :
          LET request == route.request
          IN  IF request.method = "GET"
              THEN /\ route' = RouteReturn(Response(200, {"message", "usage"}, "none", FALSE, "none"))
                   /\ UNCHANGED agent
              ELSE IF ~request.has_resume \/ request.job_description = ""
              THEN /\ route' = RouteReturn(Response(400, {"error"}, "none", FALSE, "none"))
                   /\ UNCHANGED agent
              ELSE IF extracted \in {"none", "raises"} \/ constructed = "raises"
              THEN /\ route' = RouteOuterExcept
                   /\ UNCHANGED agent
              ELSE /\ route' = [route EXCEPT !.pc = "agent"]
                   /\ agent' = [pc |-> "validate",
                                args |-> [resume_file_path |-> "cv.pdf",
                                          job_description |-> request.job_description,
                                          user_name |-> request.user_name,
                                          original_filename |-> request.filename],
                                called |-> <<>>, rewrite_result |-> "none",
                                tailored_filename |-> "none", resume_url |-> "none",
                                result |-> [status |-> "none"]]
    /\ UNCHANGED outside_route

\* Lines 278-330: the branch on an error result that has a non-empty
\* "rewritten_resume_text": text_to_docx on that text, then the upload under
\* a generated name; a failure of either is logged.
FallbackDocument(result_keys, has_text, docx, upload) ==
    IF "error" \in result_keys /\ "rewritten_resume_text" \in result_keys /\ has_text
    THEN IF docx = "raises"
         THEN Response(200, result_keys, "none", FALSE, "docx failed")
         ELSE IF upload = "raises"
         THEN Response(200, result_keys \cup {"tailored_resume_url"}, "", FALSE, "upload failed")
         ELSE Response(200, result_keys \cup {"tailored_resume_url"},
                       <<"https://blob", "Resume_fallback">>, TRUE, "uploaded")
    ELSE Response(200, result_keys, "none", FALSE, "none")

\* Lines 268-333: the upload of the original resume (a failure is logged),
\* os.remove of the temporary file, the fallback branch and the response.
RouteFinish ==
    /\ route.pc = "agent"
    /\ agent.pc = "returned"
    /\ \E original \in CallOutcomes, removed \in CallOutcomes :
       \E has_text \in BOOLEAN, docx \in CallOutcomes, upload \in CallOutcomes :
          route' =
            IF removed = "raises" THEN RouteOuterExcept
            ELSE RouteReturn(
                   [FallbackDocument(agent.result.keys \cup {"original_resume_url"},
                                     has_text, docx, upload)
                       EXCEPT !.original_resume_url = IF original = "ok" THEN "https://original" ELSE ""])
    /\ UNCHANGED agent
    /\ UNCHANGED outside_route

NextRoute == RouteEnter \/ NextAgent \/ RouteFinish

RouteStart ==
    \E request \in RouteRequests :
        route = [pc |-> "enter", request |-> request,
                 response |-> Response(0, {}, "none", FALSE, "none")]

InitRoute ==
    DocxIdle /\ TrackingIdle /\ AgentIdle /\ IdentifierIdle /\ RecommendIdle /\ RewriteIdle
    /\ RouteStart

SpecRoute == InitRoute /\ [][NextRoute]_vars

(***************************************************************************)
(* C24: when rewrite_resume ended with an error and a fallback text, the   *)
(* route generates a document from the fallback text, uploads it to the    *)
(* tailored-resume container and answers with its URL and the error turned *)
(* into a warning.                                                         *)
(***************************************************************************)
\* C24: after an error result of rewrite_resume the answered request has
\* gone through the fallback branch, and with the document uploaded the
\* answer has its URL and the warning.
C24_FallbackDocumentReturned ==
    (/\ route.pc = "returned"
     /\ route.response.status_code = 200
     /\ agent.pc = "returned"
     /\ OutcomeOf("rewrite_resume") = "error")
    => /\ route.response.fallback_docx # "none"
       /\ route.response.fallback_docx = "uploaded"
          => /\ route.response.tailored_resume_url \notin {"none", ""}
             /\ route.response.warning

(***************************************************************************)
(* C25: the document is append-only.  A step never removes or reorders     *)
(* paragraphs and adds at most one, so the paragraphs never outnumber the  *)
(* non-blank lines processed.  A paragraph already in the document changes *)
(* only when a [COMPANY], [DATES], [SKILLS], [EDUCATION_SCHOOL] or         *)
(* [EDUCATION_DATES] line attaches to it: a run is appended after its      *)
(* runs and, as stated, nothing else changes; as amended, the dates lines  *)
(* also add the right tab stop and set the spacing after the paragraph to  *)
(* 2 pt and the skills line sets it to 3 pt.                               *)
(***************************************************************************)
AttachKinds == {"COMPANY", "DATES", "SKILLS", "EDUCATION_SCHOOL", "EDUCATION_DATES"}

\* The paragraph gained one run, of the current line, after its runs.
RunAppended(old, new) ==
    /\ Len(new.runs) = Len(old.runs) + 1
    /\ SubSeq(new.runs, 1, Len(old.runs)) = old.runs
    /\ new.runs[Len(new.runs)].src = i + 1

\* Nothing but the runs changed.
OnlyRunsChanged(old, new) == new = [old EXCEPT !.runs = new.runs]

\* Nothing but the runs and the paragraph format of the attach changed.
AttachFormatChanged(old, new) ==
    CASE CurKind \in {"DATES", "EDUCATION_DATES"} ->
            new = [old EXCEPT !.runs = new.runs,
                              !.tab_stops = @ \cup {<<650, "RIGHT">>},
                              !.space_after = 2]
      [] CurKind = "SKILLS" -> new = [old EXCEPT !.runs = new.runs, !.space_after = 3]
      [] OTHER -> OnlyRunsChanged(old, new)

\* The paragraphs of the document that the step changed.
ParasChanged == {p \in 1..Len(doc) : doc'[p] # doc[p]}

AppendOnlyStep(strict) ==
    /\ Len(doc') \in {Len(doc), Len(doc) + 1}
    /\ Len(doc') = Len(doc) + 1
       => /\ ParasChanged = {}
          /\ doc'[Len(doc')].src = i + 1
    /\ Cardinality(ParasChanged) <= 1
    /\ \A p \in ParasChanged :
          /\ AtLine /\ CurKind \in AttachKinds
          /\ RunAppended(doc[p], doc'[p])
          /\ IF strict THEN OnlyRunsChanged(doc[p], doc'[p])
             ELSE AttachFormatChanged(doc[p], doc'[p])

\* The paragraphs are in the order of the lines that added them and do not
\* outnumber the non-blank lines processed.
ParagraphsInLineOrder ==
    /\ \A p, q \in 1..Len(doc) : p < q => doc[p].src < doc[q].src
    /\ \A p \in 1..Len(doc) : doc[p].src \in 1..i /\ LineKind(doc[p].src) # "BLANK"
    /\ Len(doc) <= Cardinality({k \in 1..Len(lines) : LineKind(k) # "BLANK"})

\* C25 as stated: an emitted paragraph changes only by a run appended to it.
C25_OnlyRunsAppended == [][AppendOnlyStep(TRUE)]_vars /\ []ParagraphsInLineOrder

\* C25 as amended: an emitted paragraph changes only by an attach, which
\* appends a run and, for dates and skills, sets the tab stop and spacing.
C25_AppendOnlyWithAttach == [][AppendOnlyStep(FALSE)]_vars /\ []ParagraphsInLineOrder

\* The skills joined the category's paragraph and reset its spacing.
C25_Witness ==
    /\ pc = "done"
    /\ lines = <<L("SKILL_CATEGORY"), L("SKILLS")>>
    /\ Len(doc) = 1
    /\ Len(doc[1].runs) = 2
    /\ doc[1].runs[1].src = 1 /\ doc[1].runs[2].src = 2
    /\ doc[1].space_after = 3

(***************************************************************************)
(* C26: a [SKILLS] line joins only a paragraph created by a                *)
(* [SKILL_CATEGORY] line that has no skills yet.  The text of a paragraph  *)
(* ends with ": " only when a [SKILL_CATEGORY] line created it and nothing *)
(* was appended to it, so the run of a [SKILLS] line is either the single  *)
(* run of a paragraph of its own or the second and last run of a category  *)
(* paragraph, and of two consecutive [SKILLS] lines after a category only  *)
(* the first is inline.                                                    *)
(***************************************************************************)
\* Only a category paragraph without skills ends with ": ".
ColonSpaceOnlyAfterCategory ==
    \A p \in 1..Len(doc) :
        EndsWith(ParaText(doc[p]), <<":", " ">>)
        => /\ LineKind(doc[p].src) = "SKILL_CATEGORY"
           /\ Len(doc[p].runs) = 1

\* Where the run of every [SKILLS] line is.
SkillsRunPlaces ==
    \A k \in 1..i :
        LineKind(k) = "SKILLS"
        => \E p \in 1..Len(doc) :
              /\ ParasOfLine(k) = {p}
              /\ \/ doc[p].src = k /\ Len(doc[p].runs) = 1
                 \/ /\ LineKind(doc[p].src) = "SKILL_CATEGORY"
                    /\ Len(doc[p].runs) = 2
                    /\ doc[p].runs[1].src = doc[p].src
                    /\ doc[p].runs[2].src = k

\* Of the lines category, skills, skills the second skills line has a
\* paragraph of its own.
SecondSkillsNotInline ==
    \A k \in 2..(i - 1) :
        (/\ LineKind(k - 1) = "SKILL_CATEGORY"
         /\ LineKind(k) = "SKILLS"
         /\ LineKind(k + 1) = "SKILLS")
        => /\ \E p \in 1..Len(doc) : doc[p].src = k - 1 /\ ParasOfLine(k) = {p}
           /\ \E q \in 1..Len(doc) : doc[q].src = k + 1 /\ ParasOfLine(k + 1) = {q}

\* C26: skills are inline only in a category paragraph without skills, and
\* no other paragraph ends with ": ".
C26_SkillsInlineOnlyAfterCategory ==
    ColonSpaceOnlyAfterCategory /\ SkillsRunPlaces /\ SecondSkillsNotInline

\* Category, skills that end with ":", skills: the second has its own
\* paragraph.
C26_Witness ==
    /\ pc = "done"
    /\ Len(lines) = 3
    /\ lines[1] = L("SKILL_CATEGORY")
    /\ lines[2] = <<"[SKILLS]", " ", "x", ":", " ">>
    /\ lines[3] = L("SKILLS")
    /\ Len(doc) = 2
    /\ ParaText(doc[1]) = <<"Languages", ":", " ", "x", ":">>
    /\ doc[2].src = 3

(***************************************************************************)
(* Concurrent update_tracking_file calls.  Every request of the route      *)
(* calls process_resume, and with it update_tracking_file, on its own;     *)
(* the tracking blob is shared by all of them and the method takes no      *)
(* lease and sends no ETag condition (overwrite=True).  Here a call may    *)
(* start while earlier calls are still between download and upload.        *)
(***************************************************************************)
CallUpdateConcurrently(tracking_entry) ==
    /\ Len(update_calls) < MaxCalls
    /\ update_calls' = Append(update_calls,
            [tracking_entry |-> tracking_entry, pc |-> "download",
             existing_data |-> <<>>, output |-> <<>>])
    /\ UNCHANGED tracking_blob
    /\ UNCHANGED outside_tracking

NextTrackingConcurrent ==
    \/ \E tracking_entry \in Entries : CallUpdateConcurrently(tracking_entry)
    \/ \E c \in 1..Len(update_calls) : Download(c)
    \/ \E c \in 1..Len(update_calls) : Rebuild(c)
    \/ \E c \in 1..Len(update_calls) : Upload(c)

SpecTrackingConcurrent == InitTracking /\ [][NextTrackingConcurrent]_vars

\* How often a row is in the tracking file, and how many calls submitted it.
RowsStored(row) == Cardinality({r \in 1..Len(tracking_blob.rows) : tracking_blob.rows[r] = row})

RowsSubmitted(row) ==
    Cardinality({c \in 1..Len(update_calls) : EntryRow(update_calls[c].tracking_entry) = row})

(***************************************************************************)
(* C27: when two update_tracking_file calls have run, interleaved in any   *)
(* order, and both returned, the tracking file holds the entry of each of  *)
(* them.                                                                   *)
(***************************************************************************)
\* C27: after two calls that both returned the file has both entries.
C27_BothEntriesKept ==
    (/\ Len(update_calls) = 2
     /\ \A c \in 1..2 : update_calls[c].pc = "returned")
    => \A c \in 1..2 :
          LET row == EntryRow(update_calls[c].tracking_entry)
          IN  RowsStored(row) >= RowsSubmitted(row)

(***************************************************************************)
(* C28: process_resume calls its collaborators in one order and stops at   *)
(* the first mandatory step that fails.  text_to_docx is called only after *)
(* rewrite_resume gave a result without "error", upload_tailored_resume    *)
(* only after text_to_docx returned, update_tracking_file and              *)
(* delete_original_resume only after the upload returned; after a rewrite  *)
(* result with "error" nothing is generated, uploaded, tracked or deleted. *)
(***************************************************************************)
StepOrder ==
    <<"extract_text_from_file", "rewrite_resume", "text_to_docx",
      "generate_unique_identifier", "upload_tailored_resume",
      "update_tracking_file", "delete_original_resume">>

\* The steps whose failure ends process_resume, with the outcome that lets
\* it go on.
Mandatory ==
    [extract_text_from_file |-> {"text"}, rewrite_resume |-> {"text", "no_text"},
     text_to_docx |-> {"ok"}, generate_unique_identifier |-> {"ok"},
     upload_tailored_resume |-> {"ok"}]

\* The calls made so far are the first steps of the order, one call each.
CalledInOrder ==
    /\ Len(agent.called) <= Len(StepOrder)
    /\ \A k \in 1..Len(agent.called) : agent.called[k][1] = StepOrder[k]

\* A mandatory step that failed is the last call, and the method returned
\* an error.
StopsAtFirstFailure ==
    \A k \in 1..Len(agent.called) :
        LET name == agent.called[k][1]
        IN  (name \in DOMAIN Mandatory /\ agent.called[k][2] \notin Mandatory[name])
            => /\ k = Len(agent.called)
               /\ agent.pc = "returned"
               /\ agent.result.status = "error"

WasCalled(name) == OutcomeOf(name) # "not called"

\* C28: the steps run in order, each only after the ones it needs, and a
\* rewrite result with "error" ends the method.
C28_StepsInOrder ==
    agent.pc # "idle"
    => /\ CalledInOrder
       /\ StopsAtFirstFailure
       /\ WasCalled("text_to_docx") => OutcomeOf("rewrite_resume") = "text"
       /\ WasCalled("upload_tailored_resume") => OutcomeOf("text_to_docx") = "ok"
       /\ WasCalled("update_tracking_file") => OutcomeOf("upload_tailored_resume") = "ok"
       /\ WasCalled("delete_original_resume")
          => OutcomeOf("upload_tailored_resume") = "ok" /\ WasCalled("update_tracking_file")
       /\ OutcomeOf("rewrite_resume") = "error"
          => /\ ~WasCalled("text_to_docx")
             /\ ~WasCalled("upload_tailored_resume")
             /\ ~WasCalled("update_tracking_file")
             /\ ~WasCalled("delete_original_resume")
             /\ agent.pc = "returned"
             /\ agent.result.status = "error"
             /\ agent.result.tailored_resume_url = "none"

\* The rewrite result has "error": the method returned after two calls.
C28_Witness ==
    /\ agent.pc = "returned"
    /\ agent.called = <<<<"extract_text_from_file", "text">>, <<"rewrite_resume", "error">>>>
    /\ agent.result.status = "error"
    /\ agent.result.message = "Failed to rewrite resume"

(***************************************************************************)
(* C29: an open job block or education block, when set, refers to a        *)
(* paragraph of the document whose text is not empty, so that the text     *)
(* guards of COMPANY, EDUCATION_SCHOOL and EDUCATION_DATES never decide,   *)
(* and DATES, which tests only that the block is set, does what            *)
(* EDUCATION_DATES does.                                                   *)
(***************************************************************************)
\* The open block is a paragraph of the document.
BlockInDocument(last) == last # 0 => last \in 1..Len(doc)

\* last_para.text.strip() of the open block is not empty.
BlockHasText(last) == last # 0 => Strip(ParaText(doc[last])) # <<>>

\* The pass with the two blocks in each other's place.
Mirror(s) == [s EXCEPT !.last_job_para = s.last_edu_para, !.last_edu_para = s.last_job_para]

\* On the job block DATES does what EDUCATION_DATES does on the education
\* block, and the other way round.
DatesLikeEducationDates ==
    \A s \in {PassState, Mirror(PassState)} :
        DatesLine(s, <<"2020">>, i + 1)
            = Mirror(EducationDatesLine(Mirror(s), <<"2020">>, i + 1))

\* C29: an open block is a paragraph of the document with text, and DATES
\* does what EDUCATION_DATES does.
C29_OpenBlockHasText ==
    /\ BlockInDocument(last_job_para) /\ BlockHasText(last_job_para)
    /\ BlockInDocument(last_edu_para) /\ BlockHasText(last_edu_para)
    /\ DatesLikeEducationDates

\* A title, a title marker without payload, a company: the company joins
\* the title's paragraph, which is still the open job block.
C29_Witness ==
    /\ pc = "done"
    /\ lines = <<L("JOB_TITLE"), <<"[JOB_TITLE]">>, L("COMPANY")>>
    /\ Len(doc) = 1
    /\ Len(doc[1].runs) = 2
    /\ last_job_para = 1

====
